---- MODULE Spec2Model ----
(***************************************************************************)
(* Model of scheduler-backend/scheduler.py: validate_constraints,          *)
(* generate_schedule and the TimetableScheduler they drive (time grid,     *)
(* decision variables, hard constraints, solver call, extraction and the   *)
(* fallback generator).                                                    *)
(*                                                                         *)
(* Conventions.                                                            *)
(*  - A Python dict with optional keys is a function whose DOMAIN is the   *)
(*    set of keys present; every value is wrapped: <<>> is None, <<v>> is  *)
(*    the value v.                                                         *)
(*  - A time string "HH:MM" is the pair <<h, m>> of the two integers that  *)
(*    int() reads from it; a string that split(':')/int() rejects is a     *)
(*    1-tuple: <<0>> is the empty string, <<1>> any other malformed text.  *)
(*  - Lists are sequences; the code's 0-based indices are kept, so item i  *)
(*    of a list xs is xs[i + 1].                                           *)
(*  - Identifiers of teachers, classes, subjects and rooms are non-empty   *)
(*    and pairwise distinct, as the data model says.                       *)
(*  - The CP-SAT solver is an external library: it is modelled as a search *)
(*    that may return any assignment satisfying the constraints the code   *)
(*    posted, or give up.                                                  *)
(***************************************************************************)
EXTENDS Integers, Sequences, FiniteSets, TLC

(* ------------------------------------------------------------------ *)
(* bounds of the model                                                  *)
(* ------------------------------------------------------------------ *)
MaxHours == 2

(* ------------------------------------------------------------------ *)
(* program constants                                                    *)
(* ------------------------------------------------------------------ *)
DefaultMaxSubjects == 6
DefaultMaxHoursPerDay == 5
DefaultMaxHoursPerWeek == 20
DefaultFreePeriodDuration == 60

(* ------------------------------------------------------------------ *)
(* generic helpers                                                      *)
(* ------------------------------------------------------------------ *)
Range(n) == 0 .. (n - 1)

Item(xs, i) == xs[i + 1]

SeqToSet(xs) == {xs[i] : i \in 1 .. Len(xs)}

Has(d, k) == k \in DOMAIN d

IsNone(w) == w = <<>>

Without(d, ks) == [k \in (DOMAIN d) \ ks |-> d[k]]

With(d, k, w) == [x \in (DOMAIN d) \cup {k} |-> IF x = k THEN w ELSE d[x]]

RECURSIVE Flatten(_)
Flatten(xss) == IF xss = <<>> THEN <<>> ELSE Head(xss) \o Flatten(Tail(xss))

RECURSIVE SumOver(_, _)
SumOver(S, f) ==
    IF S = {} THEN 0
    ELSE LET x == CHOOSE y \in S : TRUE IN f[x] + SumOver(S \ {x}, f)

Min2(a, b) == IF a <= b THEN a ELSE b

(* ------------------------------------------------------------------ *)
(* time strings                                                         *)
(* ------------------------------------------------------------------ *)
T(h, m) == <<h, m>>

EmptyStr == <<0>>

Garbled == <<1>>

Parseable(s) == Len(s) = 2

time_to_minutes(s) == s[1] * 60 + s[2]

minutes_to_time(m) == <<m \div 60, m % 60>>

Overlaps(a_start, a_end, b_start, b_end) == a_start < b_end /\ a_end > b_start

(* ------------------------------------------------------------------ *)
(* input records                                                        *)
(* ------------------------------------------------------------------ *)
Teacher(id, subjects) == [id |-> id, subjects |-> subjects]

Class(id, required) == [id |-> id, name |-> id, requiredSubjects |-> required]

Subject(id, hours) == [id |-> id, hoursPerWeek |-> hours]

Room(id) == [id |-> id]

FreePeriod(start, duration, days, classes) ==
    [name |-> "Assembly", startTime |-> start, duration |-> duration,
     days |-> days, forClasses |-> classes]

Window(start, end) == [startTime |-> start, endTime |-> end]

Availability(day, windows) == [day |-> day, timeSlots |-> windows]

TwoDays == <<"MONDAY", "TUESDAY">>

\* 08:00-10:00, lessons of 60 minutes, no pause, breaks outside the day:
\* the grid is 08:00-09:00, 09:00-10:00
BaseSettings ==
    [startTime |-> <<T(8, 0)>>, endTime |-> <<T(10, 0)>>,
     lessonDuration |-> <<60>>, breakDuration |-> <<0>>,
     hasBreakfastBreak |-> <<FALSE>>,
     breakfastBreakStartTime |-> <<T(10, 0)>>, breakfastBreakDuration |-> <<25>>,
     lunchBreakStartTime |-> <<T(12, 0)>>, lunchBreakDuration |-> <<45>>,
     lessonsPerDay |-> <<2>>, daysPerWeek |-> <<2>>,
     workingDays |-> <<TwoDays>>, useRoomConstraints |-> <<FALSE>>]

Rooms(n) == [i \in 1 .. n |-> Room(IF i = 1 THEN "r1" ELSE "r2")]

Catalog(h) == <<Subject("math", h), Subject("eng", 1), Subject("art", 1)>>

Input(settings, teachers, classes, subjects, rooms) ==
    [school_settings |-> settings, teachers |-> teachers, classes |-> classes,
     subjects |-> subjects, rooms |-> rooms]

ClassLists ==
    { <<Class("c1", <<"math">>)>>,
      <<Class("c1", <<"math">>), Class("c2", <<"math">>)>>,
      <<Class("c1", <<"math", "eng">>)>>,
      <<Class("c1", <<"math">>), Class("c2", <<"eng">>)>>,
      <<Class("c1", <<"math">>), Class("c2", <<"art">>)>> }

TeacherLists ==
    { <<Teacher("t1", {"math", "eng"})>>,
      <<Teacher("t1", {"math"}), Teacher("t2", {"math", "eng"})>> }

RoomSetups == {<<FALSE, 1>>, <<TRUE, 1>>, <<TRUE, 2>>}

\* classes x teachers x weekly hours x rooms
BaseInputs ==
    { Input(With(BaseSettings, "useRoomConstraints", <<rs[1]>>), ts, cs, Catalog(h), Rooms(rs[2])) :
        cs \in ClassLists, ts \in TeacherLists, h \in 1 .. MaxHours, rs \in RoomSetups }

\* a rooms list that room constraints do not ask for, or an empty one
SpareRoomInputs ==
    { Input(With(BaseSettings, "useRoomConstraints", <<u>>), ts,
            <<Class("c1", <<"math">>)>>, Catalog(h), Rooms(n)) :
        ts \in TeacherLists, h \in 1 .. MaxHours, u \in BOOLEAN, n \in {0, 2} }

Settings(changes) == [k \in DOMAIN BaseSettings \cup DOMAIN changes |->
                        IF k \in DOMAIN changes THEN changes[k] ELSE BaseSettings[k]]

OneTeacher == <<Teacher("t1", {"math", "eng"})>>

OneClass == <<Class("c1", <<"math", "eng">>)>>

EvenCatalog(h) == <<Subject("math", h), Subject("eng", h), Subject("art", 1)>>

\* time grids: a lunch break inside the day, a breakfast break, both, a day too
\* short for a lesson, time strings that do not parse
GridSettings ==
    { Settings([endTime |-> <<T(11, 0)>>, lunchBreakStartTime |-> <<T(9, 0)>>,
                lunchBreakDuration |-> <<30>>]),
      Settings([endTime |-> <<T(11, 0)>>, hasBreakfastBreak |-> <<TRUE>>,
                breakfastBreakStartTime |-> <<T(9, 0)>>, breakDuration |-> <<5>>]),
      Settings([endTime |-> <<T(11, 30)>>, hasBreakfastBreak |-> <<TRUE>>,
                breakfastBreakStartTime |-> <<T(8, 0)>>, breakfastBreakDuration |-> <<30>>,
                lunchBreakStartTime |-> <<T(9, 30)>>, lunchBreakDuration |-> <<30>>]),
      Settings([endTime |-> <<T(11, 30)>>, breakDuration |-> <<15>>,
                lunchBreakStartTime |-> <<T(8, 30)>>, lunchBreakDuration |-> <<30>>]),
      Settings([lunchBreakDuration |-> <<-45>>, breakfastBreakDuration |-> <<0>>]),
      Settings([workingDays |-> <<<<"MONDAY">>>>]),
      Settings([endTime |-> <<T(8, 30)>>]),
      Settings([endTime |-> <<T(8, 30)>>, exactLessonsPerDay |-> <<1>>]),
      Settings([endTime |-> <<T(8, 0)>>]),
      Settings([startTime |-> <<Garbled>>, workingDays |-> <<<<"MONDAY">>>>]),
      Settings([endTime |-> <<EmptyStr>>, workingDays |-> <<<<"MONDAY">>>>,
                lunchBreakStartTime |-> <<T(9, 0)>>, lunchBreakDuration |-> <<30>>]),
      Settings([lunchBreakStartTime |-> <<Garbled>>]),
      Settings([breakfastBreakStartTime |-> <<Garbled>>]),
      Settings([hasBreakfastBreak |-> <<TRUE>>, breakfastBreakStartTime |-> <<Garbled>>,
                workingDays |-> <<<<"MONDAY">>>>]) }

\* 08:00-10:00 with lunch 09:00-09:30, with and without a pause between lessons
LunchAtNineSettings ==
    { Settings([lunchBreakStartTime |-> <<T(9, 0)>>, lunchBreakDuration |-> <<30>>,
                breakDuration |-> <<b>>]) : b \in {0, 15} }

GridInputs ==
    { Input(g, OneTeacher, OneClass, Catalog(h), Rooms(1)) :
        g \in GridSettings \cup LunchAtNineSettings, h \in 1 .. MaxHours }

\* subjects per day and lessons per day
DailySettings ==
    { Settings(mn @@ mx @@ ex @@ [lessonsPerDay |-> <<lpd>>]) :
        mn \in {<<>>, [minSubjectsPerDay |-> <<1>>], [minSubjectsPerDay |-> <<2>>]},
        mx \in {<<>>, [maxSubjectsPerDay |-> <<1>>], [maxSubjectsPerDay |-> <<>>]},
        ex \in {<<>>, [exactLessonsPerDay |-> <<1>>], [exactLessonsPerDay |-> <<2>>]},
        lpd \in {1, 2} }

DailyInputs ==
    { Input(g, OneTeacher, cs, EvenCatalog(h), Rooms(1)) :
        g \in DailySettings, h \in 1 .. MaxHours,
        cs \in {OneClass, <<Class("c1", <<"math", "eng">>), Class("c2", <<"art">>)>>} }

\* free periods
FreePeriods ==
    { <<>>,
      <<FreePeriod(EmptyStr, 30, {"MONDAY"}, {"c1"})>>,
      <<FreePeriod(Garbled, 30, {"MONDAY"}, {"c1"})>>,
      <<Without(FreePeriod(T(9, 0), 0, {"MONDAY"}, {"all"}), {"duration"})>>,
      <<FreePeriod(T(8, 0), 0, {"all"}, {"c1"})>>,
      <<FreePeriod(T(7, 0), 60, {"all"}, {"all"}), FreePeriod(T(9, 30), 15, {"TUESDAY"}, {"c2"})>> }
    \cup { <<FreePeriod(T(8, 30), 30, ds, cls)>> :
             ds \in {{"MONDAY"}, {"all"}, {"SUNDAY"}}, cls \in {{"c1"}, {"all"}, {"c2", "c3"}} }

FreePeriodInputs ==
    { Input(Settings([freePeriods |-> <<fp>>]),
            <<Teacher("t1", {"math"}), Teacher("t2", {"math", "eng"})>>,
            <<Class("c1", <<"math">>), Class("c2", <<"math">>)>>, Catalog(h), Rooms(1)) :
        fp \in FreePeriods, h \in 1 .. MaxHours }

\* teacher availability
Windows ==
    { <<>>,
      <<Availability("MONDAY", {Window(T(8, 0), T(9, 0))})>>,
      <<Availability("MONDAY", {Window(T(8, 0), T(9, 0)), Window(T(9, 0), T(10, 0))}),
        Availability("TUESDAY", {Window(T(9, 0), T(10, 0))})>>,
      <<Availability("MONDAY", {Window(T(8, 60), T(10, 0)), Window(T(8, 0), T(10, 0))})>>,
      <<Availability("SUNDAY", {Window(T(8, 0), T(9, 0))})>>,
      <<Availability("TUESDAY", {})>> }

AvailabilityInputs ==
    { Input(BaseSettings,
            <<Teacher("t1", {"math"}) @@ [availability |-> w], Teacher("t2", {"math", "eng"})>>,
            cs, Catalog(h), Rooms(1)) :
        w \in Windows, h \in 1 .. MaxHours,
        cs \in {<<Class("c1", <<"math">>)>>, <<Class("c1", <<"math">>), Class("c2", <<"math">>)>>} }

\* teacher caps
Caps ==
    { d @@ w : d \in {<<>>, [maxHoursPerDay |-> 0], [maxHoursPerDay |-> 1], [maxHoursPerDay |-> 2]},
               w \in {<<>>, [maxHoursPerWeek |-> 1], [maxHoursPerWeek |-> 2], [maxHoursPerWeek |-> 3]} }

CapInputs ==
    { Input(BaseSettings, <<Teacher("t1", {"math", "eng"}) @@ cap>>, OneClass,
            EvenCatalog(h), Rooms(1)) :
        cap \in Caps, h \in 1 .. MaxHours }

\* a required setting absent or None, a class without a name
BrokenInputs ==
    { Input(Without(BaseSettings, {k}), OneTeacher, OneClass, Catalog(1), Rooms(1)) :
        k \in DOMAIN BaseSettings }
    \cup { Input(With(BaseSettings, k, <<>>), OneTeacher, OneClass, Catalog(1), Rooms(1)) :
        k \in DOMAIN BaseSettings }
    \cup { Input(With(BaseSettings, "useRoomConstraints", <<u>>), OneTeacher,
                 <<Without(Class("c1", <<"math">>), {"name"})>>, Catalog(1), Rooms(1)) :
        u \in BOOLEAN }
    \cup { Input(<<>>, OneTeacher, OneClass, Catalog(1), Rooms(1)) }

\* one subject of three hours a week, balancing on (the default) and off
BalanceInputs ==
    { Input(Settings(prefs), OneTeacher, <<Class("c1", <<"math">>)>>,
            <<Subject("math", 3)>>, Rooms(1)) :
        prefs \in {<<>>,
                   [schedulingPreferences |-> <<[balanceSubjectsAcrossDays |-> FALSE]>>]} }

\* the record the module builds when run as a script
sample_data ==
    Input([startTime |-> <<T(8, 0)>>, endTime |-> <<T(15, 0)>>,
           lessonDuration |-> <<60>>, breakDuration |-> <<15>>,
           hasBreakfastBreak |-> <<TRUE>>,
           breakfastBreakStartTime |-> <<T(10, 0)>>, breakfastBreakDuration |-> <<25>>,
           lunchBreakStartTime |-> <<T(12, 0)>>, lunchBreakDuration |-> <<45>>,
           maxSubjectsPerDay |-> <<6>>,
           workingDays |-> <<<<"MONDAY", "TUESDAY", "WEDNESDAY", "THURSDAY", "FRIDAY">>>>,
           freePeriods |-> <<<<FreePeriod(T(9, 0), 30, {"MONDAY"}, {"class-1"})>>>>,
           schedulingPreferences |->
               <<[balanceSubjectsAcrossDays |-> TRUE, preferMorningForHeavySubjects |-> TRUE,
                  heavySubjects |-> {"math", "science"}]>>],
          <<Teacher("teacher-1", {"math", "science"})
              @@ [maxHoursPerDay |-> 5, maxHoursPerWeek |-> 20],
            Teacher("teacher-2", {"english"})
              @@ [maxHoursPerDay |-> 5, maxHoursPerWeek |-> 20]>>,
          <<Class("class-1", <<"math", "english">>), Class("class-2", <<"science", "english">>)>>,
          <<Subject("math", 5), Subject("science", 4), Subject("english", 6)>>,
          <<Room("room-1"), Room("room-2")>>)

\* a day of three slots, 10:00, 11:00 and 12:00, where a gap and an afternoon
\* lesson are possible; an assembly at 11:00 forces the gap
HeavyPreferences ==
    { <<>>,
      [schedulingPreferences |-> <<[preferMorningForHeavySubjects |-> TRUE,
                                    heavySubjects |-> {"math"}]>>],
      [schedulingPreferences |-> <<[preferMorningForHeavySubjects |-> TRUE,
                                    heavySubjects |-> {"math", "eng", "music"}]>>],
      [schedulingPreferences |-> <<[preferMorningForHeavySubjects |-> FALSE,
                                    heavySubjects |-> {"math"}]>>],
      [schedulingPreferences |-> <<[preferMorningForHeavySubjects |-> TRUE]>>] }

Assembly(on, hour) ==
    IF on THEN [freePeriods |-> <<<<FreePeriod(T(hour, 0), 60, {"all"}, {"all"})>>>>] ELSE <<>>

ObjectiveInputs ==
    { Input(Settings(prefs @@ Assembly(assembly, st + 1) @@
                     [startTime |-> <<T(st, 0)>>, endTime |-> <<T(st + 3, 0)>>,
                      lunchBreakStartTime |-> <<T(16, 0)>>,
                      workingDays |-> <<<<"MONDAY">>>>]),
            OneTeacher, OneClass, Catalog(1), Rooms(1)) :
        prefs \in HeavyPreferences, st \in {10, 12}, assembly \in BOOLEAN }

Inputs ==
    BaseInputs \cup SpareRoomInputs \cup GridInputs \cup DailyInputs \cup FreePeriodInputs
    \cup AvailabilityInputs \cup CapInputs \cup BrokenInputs \cup BalanceInputs
    \cup ObjectiveInputs \cup {sample_data}

(* ------------------------------------------------------------------ *)
(* validate_constraints                                                 *)
(* ------------------------------------------------------------------ *)
\* `not d.get(k)` for a time string: absent, None or ""
FalsyTime(d, k) == ~Has(d, k) \/ IsNone(d[k]) \/ d[k][1] = EmptyStr

\* `not d.get(k)` for a number: absent, None or 0
FalsyInt(d, k) == ~Has(d, k) \/ IsNone(d[k]) \/ d[k][1] = 0

\* school_settings.get('useRoomConstraints', True)
RoomConstraintsWanted(S) ==
    IF Has(S, "useRoomConstraints")
    THEN ~IsNone(S["useRoomConstraints"]) /\ S["useRoomConstraints"][1]
    ELSE TRUE

SubjectIdsOf(d) == {d.subjects[i].id : i \in 1 .. Len(d.subjects)}

\* the try block: both times split and read as integers, end after start
TimeIssues(S) ==
    LET s_ok == ~Has(S, "startTime") \/ (~IsNone(S["startTime"]) /\ Parseable(S["startTime"][1]))
        e_ok == ~Has(S, "endTime") \/ (~IsNone(S["endTime"]) /\ Parseable(S["endTime"][1]))
        s_time == IF Has(S, "startTime") THEN S["startTime"][1] ELSE T(8, 0)
        e_time == IF Has(S, "endTime") THEN S["endTime"][1] ELSE T(15, 0)
    IN  IF ~(s_ok /\ e_ok) THEN {"invalid_time_format"}
        ELSE IF time_to_minutes(e_time) <= time_to_minutes(s_time)
             THEN {"end_not_after_start"} ELSE {}

FreePeriodIssues(S) ==
    LET fps == IF Has(S, "freePeriods") THEN S["freePeriods"][1] ELSE <<>>
    IN  UNION { (IF fps[i].name = "" THEN {"free_period_no_name"} ELSE {})
                \cup (IF fps[i].startTime = EmptyStr THEN {"free_period_no_start"} ELSE {})
                \cup (IF fps[i].days = {} THEN {"free_period_no_days"} ELSE {})
                \cup (IF fps[i].forClasses = {} THEN {"free_period_no_classes"} ELSE {})
                : i \in 1 .. Len(fps) }

SettingsIssues(S) ==
    IF DOMAIN S = {} THEN {}
    ELSE (IF FalsyTime(S, "startTime") THEN {"start_time_missing"} ELSE {})
         \cup (IF FalsyTime(S, "endTime") THEN {"end_time_missing"} ELSE {})
         \cup (IF FalsyInt(S, "lessonDuration") THEN {"lesson_duration_missing"} ELSE {})
         \cup (IF Has(S, "maxSubjectsPerDay") /\ ~IsNone(S["maxSubjectsPerDay"])
                  /\ S["maxSubjectsPerDay"][1] < 0
               THEN {"max_subjects_not_positive"} ELSE {})
         \cup FreePeriodIssues(S)
         \cup TimeIssues(S)

EntityIssues(d) ==
    (IF \E i \in 1 .. Len(d.teachers) : d.teachers[i].subjects = {}
     THEN {"teacher_no_subjects"} ELSE {})
    \cup (IF \E i \in 1 .. Len(d.classes) : d.classes[i].requiredSubjects = <<>>
          THEN {"class_no_subjects"} ELSE {})
    \cup (IF \E i \in 1 .. Len(d.subjects) : d.subjects[i].hoursPerWeek = 0
          THEN {"subject_no_hours"} ELSE {})
    \cup (IF \E i \in 1 .. Len(d.classes) :
                ~(SeqToSet(d.classes[i].requiredSubjects) \subseteq SubjectIdsOf(d))
          THEN {"class_requires_unknown_subject"} ELSE {})
    \cup (IF \E i \in 1 .. Len(d.teachers) : ~(d.teachers[i].subjects \subseteq SubjectIdsOf(d))
          THEN {"teacher_has_unknown_subject"} ELSE {})

validate_constraints(d) ==
    LET S == d.school_settings
        issues ==
            (IF DOMAIN S = {} THEN {"settings_missing"} ELSE {})
            \cup (IF d.teachers = <<>> THEN {"no_teachers"} ELSE {})
            \cup (IF d.classes = <<>> THEN {"no_classes"} ELSE {})
            \cup (IF d.subjects = <<>> THEN {"no_subjects"} ELSE {})
            \cup (IF RoomConstraintsWanted(S) /\ d.rooms = <<>> THEN {"no_rooms"} ELSE {})
            \cup SettingsIssues(S)
            \cup EntityIssues(d)
            \cup (IF Len(d.rooms) < Len(d.classes) THEN {"not_enough_rooms"} ELSE {})
    IN  [feasible |-> issues = {}, issues |-> issues]

(* ------------------------------------------------------------------ *)
(* TimetableScheduler.__init__                                          *)
(* ------------------------------------------------------------------ *)
\* the list without its daysPerWeek entry
RequiredButDaysPerWeek ==
    {"startTime", "endTime", "lessonDuration", "breakDuration",
     "hasBreakfastBreak", "breakfastBreakStartTime", "breakfastBreakDuration",
     "lunchBreakDuration", "lunchBreakStartTime", "lessonsPerDay",
     "workingDays", "useRoomConstraints"}

required_settings ==
    {"startTime", "endTime", "lessonDuration", "breakDuration",
     "hasBreakfastBreak", "breakfastBreakStartTime", "breakfastBreakDuration",
     "lunchBreakDuration", "lunchBreakStartTime", "lessonsPerDay", "daysPerWeek",
     "workingDays", "useRoomConstraints"}

\* school_settings['maxSubjectsPerDay'] =
\*     school_settings.get('maxSubjectsPerDay', school_settings.get('lessonsPerDay', 6))
WithMaxSubjects(S) ==
    With(S, "maxSubjectsPerDay",
         IF Has(S, "maxSubjectsPerDay") THEN S["maxSubjectsPerDay"]
         ELSE IF Has(S, "lessonsPerDay") THEN S["lessonsPerDay"]
         ELSE <<DefaultMaxSubjects>>)

MissingSettings(S) == {k \in required_settings : ~Has(S, k) \/ IsNone(S[k])}

(* ------------------------------------------------------------------ *)
(* state                                                                *)
(* ------------------------------------------------------------------ *)
VARIABLES
    request,          \* the JSON body as the caller sent it
    data,             \* the caller's input record (school_settings is shared with the scheduler)
    validation,       \* what validate_constraints returned for it, <<>> before the call
    pc,               \* position of the generate_schedule call
    current_minutes,  \* cursor of the time grid loop
    time_slots,       \* self.time_slots: sequence of <<start, end>> time strings
    assignment_vars,  \* self.assignment_vars: keys <<c, s, t, r, d, ts>> in creation order
    model,            \* constraints posted to the CP model
    sol,              \* solver: the variables currently set to 1
    status,           \* self.status
    raised,           \* where an exception escaped to generate_schedule's handler
    result            \* the returned schedule record, <<>> before the return

vars == <<request, data, validation, pc, current_minutes, time_slots, assignment_vars,
          model, sol, status, raised, result>>

(* the scheduler's view of the input *)
school_settings == data.school_settings
teachers == data.teachers
classes == data.classes
subjects == data.subjects
rooms == data.rooms
Setting(k) == school_settings[k][1]
use_room_constraints == Setting("useRoomConstraints")
days == Setting("workingDays")
free_periods == IF Has(school_settings, "freePeriods") THEN Setting("freePeriods") ELSE <<>>

NT == Len(teachers)
NC == Len(classes)
NS == Len(subjects)
NR == Len(rooms)
ND == Len(days)
NTS == Len(time_slots)

subject_indices == {subjects[i].id : i \in 1 .. NS}
subject_index(s_id) == CHOOSE s \in Range(NS) : Item(subjects, s).id = s_id
day_indices == SeqToSet(days)
\* a dict comprehension keeps the last index of a repeated key
day_index(day) ==
    CHOOSE d \in Range(ND) : Item(days, d) = day /\ \A e \in Range(ND) : Item(days, e) = day => e <= d
time_slot_indices == SeqToSet(time_slots)
time_slot_index(slot) ==
    CHOOSE ts \in Range(NTS) :
        Item(time_slots, ts) = slot /\ \A e \in Range(NTS) : Item(time_slots, e) = slot => e <= ts

(* ------------------------------------------------------------------ *)
(* _generate_time_slots                                                 *)
(* ------------------------------------------------------------------ *)
has_breakfast_break == Setting("hasBreakfastBreak")
lesson_duration == Setting("lessonDuration")
break_duration == Setting("breakDuration")
start_minutes == time_to_minutes(Setting("startTime"))
end_minutes == time_to_minutes(Setting("endTime"))
breakfast_start_minutes == time_to_minutes(Setting("breakfastBreakStartTime"))
breakfast_end_minutes == breakfast_start_minutes + Setting("breakfastBreakDuration")
lunch_start_minutes == time_to_minutes(Setting("lunchBreakStartTime"))
lunch_end_minutes == lunch_start_minutes + Setting("lunchBreakDuration")

\* the time_to_minutes calls made before the loop all succeed
GridTimesParse ==
    /\ Parseable(Setting("startTime"))
    /\ Parseable(Setting("endTime"))
    /\ has_breakfast_break => Parseable(Setting("breakfastBreakStartTime"))
    /\ Parseable(Setting("lunchBreakStartTime"))

\* the except branch's fallback slots
default_time_slots ==
    << <<T(8, 0), T(9, 0)>>, <<T(9, 15), T(10, 15)>>, <<T(10, 30), T(11, 30)>>,
       <<T(11, 45), T(12, 45)>>, <<T(13, 30), T(14, 30)>>, <<T(14, 45), T(15, 45)>> >>

LoopCondition == current_minutes + lesson_duration <= end_minutes

\* the test forgets that the cursor may already be past the break
BreakfastNotOverYet ==
    /\ has_breakfast_break
    /\ current_minutes + lesson_duration > breakfast_start_minutes

BreakfastOverlap ==
    /\ has_breakfast_break
    /\ Overlaps(current_minutes, current_minutes + lesson_duration,
                breakfast_start_minutes, breakfast_end_minutes)

\* only a lesson that lies wholly inside the lunch break counts as overlapping
LunchHoldsWholeLesson ==
    /\ lunch_start_minutes <= current_minutes
    /\ current_minutes + lesson_duration <= lunch_end_minutes

LunchOverlap ==
    Overlaps(current_minutes, current_minutes + lesson_duration,
             lunch_start_minutes, lunch_end_minutes)

(* ------------------------------------------------------------------ *)
(* _create_variables                                                    *)
(* ------------------------------------------------------------------ *)
RECURSIVE Ascending(_)
Ascending(S) ==
    IF S = {} THEN <<>>
    ELSE LET m == CHOOSE x \in S : \A y \in S : x <= y IN <<m>> \o Ascending(S \ {m})

valid_teachers(s_id) == {t \in Range(NT) : s_id \in Item(teachers, t).subjects}

\* the (class, subject) pairs that get variables: the subject is in the catalog
\* and some teacher can teach it
Schedulable(c, s_id) == s_id \in subject_indices /\ valid_teachers(s_id) # {}

KeysAtRoom(c, s, vts, r) ==
    Flatten([d1 \in 1 .. ND |->
        Flatten([ts1 \in 1 .. NTS |->
            [ti \in 1 .. Len(vts) |-> <<c, s, vts[ti], r, d1 - 1, ts1 - 1>>]])])

KeysFor(c, s_id) ==
    LET s == subject_index(s_id)
        vts == Ascending(valid_teachers(s_id))
    IN  IF ~use_room_constraints THEN KeysAtRoom(c, s, vts, 0)
        ELSE Flatten([r1 \in 1 .. NR |-> KeysAtRoom(c, s, vts, r1 - 1)])

_create_variables ==
    Flatten([c1 \in 1 .. NC |->
        LET req == classes[c1].requiredSubjects
        IN  Flatten([j \in 1 .. Len(req) |->
                IF Schedulable(c1 - 1, req[j]) THEN KeysFor(c1 - 1, req[j]) ELSE <<>>])])

(* ------------------------------------------------------------------ *)
(* the CP model                                                         *)
(*   sum_eq / sum_le : model.Add(sum(vars) == bound / <= bound)         *)
(*   one_pick        : booleans pick_g, one per group, sum(pick) == 1,  *)
(*                     pick_g == max(vars of g) for the non-empty groups*)
(*   taught_ge/le    : booleans taught_g <=> sum(vars of g) >= 1,       *)
(*                     sum(taught) >= bound / <= bound                  *)
(* a group is a pair <<tag, vars>>                                      *)
(* ------------------------------------------------------------------ *)
Sum(kind, vs, bound) == [kind |-> kind, vars |-> vs, groups |-> {}, bound |-> bound]

Grouped(kind, groups, bound) == [kind |-> kind, vars |-> {}, groups |-> groups, bound |-> bound]

Zero(k) == Sum("sum_eq", {k}, 0)

Keys == SeqToSet(assignment_vars)

AllT == Range(NT)
AllC == Range(NC)
AllS == Range(NS)
AllD == Range(ND)
AllTS == Range(NTS)

\* the variables a family finds with `if key in self.assignment_vars` while
\* looping over the given classes, subjects, teachers, days, slots and over
\* r in range(len(self.rooms))
Lookup(cs, ss, tt, ds, tss) ==
    {k \in Keys : /\ k[1] \in cs /\ k[2] \in ss /\ k[3] \in tt
                  /\ k[4] \in Range(NR) /\ k[5] \in ds /\ k[6] \in tss}

hours_per_week(s) == Item(subjects, s).hoursPerWeek

\* (c, s) for every class c and every required subject of c found in the catalog
RequiredPairs ==
    UNION {{<<c, subject_index(s_id)>> :
                s_id \in SeqToSet(Item(classes, c).requiredSubjects) \cap subject_indices} :
            c \in AllC}

_add_subject_hours_constraint ==
    {Sum("sum_eq", Lookup({p[1]}, {p[2]}, AllT, AllD, AllTS), hours_per_week(p[2])) :
        p \in {q \in RequiredPairs : /\ hours_per_week(q[2]) > 0
                                     /\ Lookup({q[1]}, {q[2]}, AllT, AllD, AllTS) # {}}}

TeacherGroups(c, s) ==
    {<<t, Lookup({c}, {s}, {t}, AllD, AllTS)>> : t \in valid_teachers(Item(subjects, s).id)}

\* the hours of a pair are enforced but nothing ties its lessons to one teacher
HoursWithoutTeacherPick ==
    {Sum("sum_eq", Lookup({p[1]}, {p[2]}, AllT, AllD, AllTS), hours_per_week(p[2])) :
        p \in {q \in RequiredPairs : /\ valid_teachers(Item(subjects, q[2]).id) # {}
                                     /\ Lookup({q[1]}, {q[2]}, AllT, AllD, AllTS) # {}}}

_add_teacher_consistency_constraint ==
    LET pairs == {q \in RequiredPairs : valid_teachers(Item(subjects, q[2]).id) # {}}
    IN  {Grouped("one_pick", TeacherGroups(p[1], p[2]), 1) : p \in pairs}
        \cup {Sum("sum_eq", Lookup({p[1]}, {p[2]}, AllT, AllD, AllTS), hours_per_week(p[2])) :
                p \in {q \in pairs : Lookup({q[1]}, {q[2]}, AllT, AllD, AllTS) # {}}}

\* the weekly cap applied per day
WeeklyCapAsDaily(t) ==
    IF Has(Item(teachers, t), "maxHoursPerWeek") THEN Item(teachers, t).maxHoursPerWeek
    ELSE DefaultMaxHoursPerWeek

max_daily(t) ==
    IF Has(Item(teachers, t), "maxHoursPerDay") THEN Item(teachers, t).maxHoursPerDay
    ELSE DefaultMaxHoursPerDay

max_weekly(t) ==
    IF Has(Item(teachers, t), "maxHoursPerWeek") THEN Item(teachers, t).maxHoursPerWeek
    ELSE DefaultMaxHoursPerWeek

\* a teacher may hold two lessons in one slot
TeacherSlotsAllowTwo ==
    {Sum("sum_le", Lookup(AllC, AllS, {x[1]}, {x[2]}, {x[3]}), 2) :
        x \in {y \in AllT \X AllD \X AllTS : Lookup(AllC, AllS, {y[1]}, {y[2]}, {y[3]}) # {}}}

TeacherSlotConstraints ==
    {Sum("sum_le", Lookup(AllC, AllS, {x[1]}, {x[2]}, {x[3]}), 1) :
        x \in {y \in AllT \X AllD \X AllTS : Lookup(AllC, AllS, {y[1]}, {y[2]}, {y[3]}) # {}}}

TeacherDailyConstraints ==
    {Sum("sum_le", Lookup(AllC, AllS, {x[1]}, {x[2]}, AllTS), max_daily(x[1])) :
        x \in {y \in AllT \X AllD : Lookup(AllC, AllS, {y[1]}, {y[2]}, AllTS) # {}}}

TeacherWeeklyConstraints ==
    {Sum("sum_le", Lookup(AllC, AllS, {t}, AllD, AllTS), max_weekly(t)) :
        t \in {u \in AllT : Lookup(AllC, AllS, {u}, AllD, AllTS) # {}}}

_add_teacher_availability_constraints ==
    TeacherSlotConstraints \cup TeacherDailyConstraints \cup TeacherWeeklyConstraints

\* a class may sit in two lessons in one slot
ClassSlotsAllowTwo ==
    {Sum("sum_le", Lookup({x[1]}, AllS, AllT, {x[2]}, {x[3]}), 2) :
        x \in {y \in AllC \X AllD \X AllTS : Lookup({y[1]}, AllS, AllT, {y[2]}, {y[3]}) # {}}}

_add_class_constraints ==
    {Sum("sum_le", Lookup({x[1]}, AllS, AllT, {x[2]}, {x[3]}), 1) :
        x \in {y \in AllC \X AllD \X AllTS : Lookup({y[1]}, AllS, AllT, {y[2]}, {y[3]}) # {}}}

RoomVars(r, d, ts) == {k \in Lookup(AllC, AllS, AllT, {d}, {ts}) : k[4] = r}

\* a room may hold two lessons in one slot
RoomSlotsAllowTwo ==
    {Sum("sum_le", RoomVars(x[1], x[2], x[3]), 2) :
        x \in {y \in Range(NR) \X AllD \X AllTS : RoomVars(y[1], y[2], y[3]) # {}}}

_add_room_constraints ==
    {Sum("sum_le", RoomVars(x[1], x[2], x[3]), 1) :
        x \in {y \in Range(NR) \X AllD \X AllTS : RoomVars(y[1], y[2], y[3]) # {}}}

SlotStart(ts) == time_to_minutes(Item(time_slots, ts)[1])
SlotEnd(ts) == time_to_minutes(Item(time_slots, ts)[2])

\* time_to_minutes is applied to both break start times, whatever hasBreakfastBreak says
BreakConstraintsRaise ==
    \/ ~Parseable(Setting("breakfastBreakStartTime"))
    \/ ~Parseable(Setting("lunchBreakStartTime"))

BreakSlots ==
    {ts \in AllTS :
        \/ has_breakfast_break
           /\ Overlaps(SlotStart(ts), SlotEnd(ts), breakfast_start_minutes, breakfast_end_minutes)
        \/ Overlaps(SlotStart(ts), SlotEnd(ts), lunch_start_minutes, lunch_end_minutes)}

_add_break_constraints == {Zero(k) : k \in Lookup(AllC, AllS, AllT, AllD, BreakSlots)}

min_subjects_per_day ==
    IF Has(school_settings, "minSubjectsPerDay") THEN school_settings["minSubjectsPerDay"] ELSE <<>>
max_subjects_per_day == school_settings["maxSubjectsPerDay"]
exact_lessons_per_day ==
    IF Has(school_settings, "exactLessonsPerDay") THEN school_settings["exactLessonsPerDay"] ELSE <<>>

class_day_subjects(c, d) ==
    {g \in {<<s, Lookup({c}, {s}, AllT, {d}, AllTS)>> : s \in AllS} : g[2] # {}}

\* sum(...) <= None raises TypeError
DailyLessonsRaise ==
    /\ IsNone(max_subjects_per_day)
    /\ \E c \in AllC, d \in AllD : class_day_subjects(c, d) # {}

SubjectsPerDayConstraints ==
    LET cds == {x \in AllC \X AllD : class_day_subjects(x[1], x[2]) # {}}
    IN  (IF IsNone(min_subjects_per_day) THEN {}
         ELSE {Grouped("taught_ge", class_day_subjects(x[1], x[2]), min_subjects_per_day[1]) :
                    x \in cds})
        \cup {Grouped("taught_le", class_day_subjects(x[1], x[2]), max_subjects_per_day[1]) :
                    x \in cds}

ExactLessonsConstraints ==
    IF IsNone(exact_lessons_per_day) THEN {}
    ELSE {Sum("sum_eq", Lookup({x[1]}, AllS, AllT, {x[2]}, AllTS), exact_lessons_per_day[1]) :
            x \in {y \in AllC \X AllD : Lookup({y[1]}, AllS, AllT, {y[2]}, AllTS) # {}}}

_add_daily_lessons_constraints == SubjectsPerDayConstraints \cup ExactLessonsConstraints

\* periods without a start time are skipped
TimedFreePeriods == {i \in 1 .. Len(free_periods) : free_periods[i].startTime # EmptyStr}

FreePeriodConstraintsRaise ==
    \E i \in TimedFreePeriods : ~Parseable(free_periods[i].startTime)

period_duration(p) == IF Has(p, "duration") THEN p.duration ELSE DefaultFreePeriodDuration

\* a slot is blocked only when it starts inside the period
FreePeriodCellsByStart(p) ==
    LET period_start_minutes == time_to_minutes(p.startTime)
        period_end_minutes == period_start_minutes + period_duration(p)
    IN  {x \in AllC \X AllD \X AllTS :
            /\ Item(days, x[2]) \in p.days \/ "all" \in p.days
            /\ period_start_minutes <= SlotStart(x[3]) /\ SlotStart(x[3]) < period_end_minutes
            /\ "all" \in p.forClasses \/ Item(classes, x[1]).id \in p.forClasses}

\* the (class, day, slot) triples period p blocks
FreePeriodCells(p) ==
    LET period_start_minutes == time_to_minutes(p.startTime)
        period_end_minutes == period_start_minutes + period_duration(p)
    IN  {x \in AllC \X AllD \X AllTS :
            /\ Item(days, x[2]) \in p.days \/ "all" \in p.days
            /\ Overlaps(SlotStart(x[3]), SlotEnd(x[3]), period_start_minutes, period_end_minutes)
            /\ "all" \in p.forClasses \/ Item(classes, x[1]).id \in p.forClasses}

_add_free_period_constraints ==
    {Zero(k) : k \in UNION {Lookup({x[1]}, AllS, AllT, {x[2]}, {x[3]}) :
                    x \in UNION {FreePeriodCells(free_periods[i]) : i \in TimedFreePeriods}}}

scheduling_preferences ==
    IF Has(school_settings, "schedulingPreferences") THEN Setting("schedulingPreferences")
    ELSE [x \in {} |-> {}]

balance_subjects ==
    IF Has(scheduling_preferences, "balanceSubjectsAcrossDays")
    THEN scheduling_preferences.balanceSubjectsAcrossDays ELSE TRUE

\* the bound is one lesson a day whatever the weekly hours
BalancedAtMostOneADay ==
    IF ~balance_subjects THEN {}
    ELSE {Sum("sum_le", Lookup({x[1][1]}, {x[1][2]}, AllT, {x[2]}, AllTS), 1) :
            x \in {y \in RequiredPairs \X AllD :
                    /\ hours_per_week(y[1][2]) >= 2
                    /\ Lookup({y[1][1]}, {y[1][2]}, AllT, {y[2]}, AllTS) # {}}}

_add_balanced_distribution_constraint ==
    IF ~balance_subjects THEN {}
    ELSE {Sum("sum_le", Lookup({x[1][1]}, {x[1][2]}, AllT, {x[2]}, AllTS),
              Min2(2, hours_per_week(x[1][2]) - 1)) :
            x \in {y \in RequiredPairs \X AllD :
                    /\ hours_per_week(y[1][2]) >= 2
                    /\ Lookup({y[1][1]}, {y[1][2]}, AllT, {y[2]}, AllTS) # {}}}

availability(t) ==
    IF Has(Item(teachers, t), "availability") THEN Item(teachers, t).availability ELSE <<>>

\* a window is matched to the slot that starts when it starts
AvailableSlotsByStart(t) ==
    LET av == availability(t)
    IN  UNION {{<<day_index(av[i].day), ts>> :
                    ts \in {u \in AllTS : \E w \in av[i].timeSlots :
                                            w.startTime = Item(time_slots, u)[1]}} :
                i \in {j \in 1 .. Len(av) : av[j].day \in day_indices}}

\* the (day index, slot index) pairs a teacher's windows name
available_slots(t) ==
    LET av == availability(t)
    IN  UNION {{<<day_index(av[i].day), time_slot_index(<<w.startTime, w.endTime>>)>> :
                    w \in {v \in av[i].timeSlots :
                             <<v.startTime, v.endTime>> \in time_slot_indices}} :
                i \in {j \in 1 .. Len(av) : av[j].day \in day_indices}}

_add_teacher_availability_schedule_constraint ==
    {Zero(k) : k \in UNION {{v \in Lookup(AllC, AllS, {t}, AllD, AllTS) :
                                <<v[5], v[6]>> \notin available_slots(t)} :
                    t \in {u \in AllT : availability(u) # <<>>}}}

NoRepeatPerDay ==
    {Sum("sum_le", Lookup({x[1]}, {x[3]}, AllT, {x[2]}, AllTS), 1) :
        x \in {y \in AllC \X AllD \X AllS : Lookup({y[1]}, {y[3]}, AllT, {y[2]}, AllTS) # {}}}

\* current_var + next_var <= 1 for every pair of variables of one (class, day,
\* subject) in consecutive slots
NoBackToBack ==
    UNION {{Sum("sum_le", {cv, nv}, 1) :
                cv \in Lookup({x[1]}, {x[3]}, AllT, {x[2]}, {x[4]}),
                nv \in Lookup({x[1]}, {x[3]}, AllT, {x[2]}, {x[4] + 1})} :
            x \in AllC \X AllD \X AllS \X Range(NTS - 1)}

_add_no_repeat_subject_constraint == NoRepeatPerDay \cup NoBackToBack

\* an exception raised while the constraints are posted
AddConstraintsRaise ==
    BreakConstraintsRaise \/ DailyLessonsRaise \/ FreePeriodConstraintsRaise

_add_all_constraints ==
    _add_subject_hours_constraint
    \cup _add_teacher_consistency_constraint
    \cup _add_teacher_availability_constraints
    \cup _add_class_constraints
    \cup (IF use_room_constraints THEN _add_room_constraints ELSE {})
    \cup _add_break_constraints
    \cup _add_daily_lessons_constraints
    \cup _add_free_period_constraints
    \cup _add_balanced_distribution_constraint
    \cup _add_teacher_availability_schedule_constraint
    \cup _add_no_repeat_subject_constraint

(* ------------------------------------------------------------------ *)
(* the solver (external): what an assignment must satisfy               *)
(* ------------------------------------------------------------------ *)
ActiveGroups(con, a) == {g \in con.groups : g[2] \cap a # {}}

Holds(con, a) ==
    CASE con.kind = "sum_eq" -> Cardinality(con.vars \cap a) = con.bound
      [] con.kind = "sum_le" -> Cardinality(con.vars \cap a) <= con.bound
      [] con.kind = "one_pick" ->
            \/ Cardinality(ActiveGroups(con, a)) = 1
            \/ ActiveGroups(con, a) = {} /\ \E g \in con.groups : g[2] = {}
      [] con.kind = "taught_ge" -> Cardinality(ActiveGroups(con, a)) >= con.bound
      [] con.kind = "taught_le" -> Cardinality(ActiveGroups(con, a)) <= con.bound

\* a constraint that no extension of `a` can repair is violated already
Admits(con, a) ==
    CASE con.kind \in {"sum_eq", "sum_le"} -> Cardinality(con.vars \cap a) <= con.bound
      [] con.kind = "one_pick" -> Cardinality(ActiveGroups(con, a)) <= 1
      [] con.kind = "taught_le" -> Cardinality(ActiveGroups(con, a)) <= con.bound
      [] con.kind = "taught_ge" -> TRUE

Mentions(con, k) == k \in con.vars \/ \E g \in con.groups : k \in g[2]

Satisfies(a) == \A con \in model : Holds(con, a)

(* ------------------------------------------------------------------ *)
(* the objective                                                        *)
(* ------------------------------------------------------------------ *)
MorningEndHour == 12
TeacherGapWeight == 100
ClassGapWeight == 80
HeavyAfternoonWeight == 50

prefer_morning ==
    IF Has(scheduling_preferences, "preferMorningForHeavySubjects")
    THEN scheduling_preferences.preferMorningForHeavySubjects ELSE FALSE

heavy_subjects ==
    IF Has(scheduling_preferences, "heavySubjects")
    THEN scheduling_preferences.heavySubjects ELSE {}

\* int(slot_start.split(':')[0]) < 12
morning_slots == {ts \in AllTS : Item(time_slots, ts)[1][1] < MorningEndHour}

\* the penalty falls on the heavy subjects' morning variables
HeavyMorningKeys ==
    IF ~(prefer_morning /\ heavy_subjects # {}) \/ morning_slots = {} THEN {}
    ELSE Lookup(AllC, {subject_index(s_id) : s_id \in heavy_subjects \cap subject_indices},
                AllT, AllD, morning_slots)

\* the list is not built when the preference is off, when no subject is heavy
\* or when the grid has no morning slot
heavy_subjects_afternoon_keys ==
    IF ~(prefer_morning /\ heavy_subjects # {}) \/ morning_slots = {} THEN {}
    ELSE Lookup(AllC, {subject_index(s_id) : s_id \in heavy_subjects \cap subject_indices},
                AllT, AllD, AllTS \ morning_slots)

teacher_slot_vars(t, d, ts) == Lookup(AllC, AllS, {t}, {d}, {ts})

class_slot_vars(c, d, ts) == Lookup({c}, AllS, AllT, {d}, {ts})

\* slot_vars: slot index -> the variables of one teacher (class) on one day.
\* active_slots lists the slots that have variables; a gap variable is made
\* for every inner position of that list
gap_vars(slot_vars, a) ==
    LET active_slots == Ascending({ts \in AllTS : slot_vars[ts] # {}})
        is_active(i) == slot_vars[active_slots[i]] \cap a # {}
    IN  Cardinality({i \in 2 .. Len(active_slots) - 1 :
                        is_active(i - 1) /\ ~is_active(i) /\ is_active(i + 1)})

teacher_gap_vars(a) ==
    SumOver(AllT \X AllD,
            [x \in AllT \X AllD |->
                gap_vars([ts \in AllTS |-> teacher_slot_vars(x[1], x[2], ts)], a)])

class_gap_vars(a) ==
    SumOver(AllC \X AllD,
            [x \in AllC \X AllD |->
                gap_vars([ts \in AllTS |-> class_slot_vars(x[1], x[2], ts)], a)])

\* the value of the minimised expression under assignment a
_add_objective(a) ==
    TeacherGapWeight * teacher_gap_vars(a)
    + ClassGapWeight * class_gap_vars(a)
    + HeavyAfternoonWeight * Cardinality(heavy_subjects_afternoon_keys \cap a)

\* OPTIMAL: the search proved that no assignment of the model has a smaller
\* objective (zero is the floor of the expression)
ProvedOptimal(a) ==
    \/ _add_objective(a) = 0
    \/ \A b \in SUBSET Keys : Satisfies(b) => _add_objective(a) <= _add_objective(b)

(* ------------------------------------------------------------------ *)
(* extract_solution                                                     *)
(* ------------------------------------------------------------------ *)
Entry(day, slot, class_id, subject_id, teacher_id, room_id) ==
    [day |-> day, startTime |-> slot[1], endTime |-> slot[2], classId |-> class_id,
     subjectId |-> subject_id, teacherId |-> teacher_id, roomId |-> room_id]

\* self.room_ids[r] raises KeyError; cls["name"] raises KeyError
ExtractRaises ==
    \E k \in sol :
        \/ k[4] \notin Range(NR)
        \/ ~use_room_constraints /\ ~Has(Item(classes, k[1]), "name")

EntryOf(k) ==
    Entry(Item(days, k[5]), Item(time_slots, k[6]), Item(classes, k[1]).id,
          Item(subjects, k[2]).id, Item(teachers, k[3]).id,
          IF use_room_constraints THEN Item(rooms, k[4]).id ELSE Item(classes, k[1]).id)

IsSet(k) == k \in sol

extract_solution ==
    LET chosen == SelectSeq(assignment_vars, IsSet)
    IN  [scheduleId |-> "generated-schedule",
         entries |-> [i \in 1 .. Len(chosen) |-> EntryOf(chosen[i])]]

\* the keys of subject_hours_count: the (class id, subject id) of the entries
subject_hours_count(entries) ==
    LET keys == {<<entries[i].classId, entries[i].subjectId>> : i \in 1 .. Len(entries)}
    IN  [key \in keys |->
            Cardinality({i \in 1 .. Len(entries) :
                            <<entries[i].classId, entries[i].subjectId>> = key})]

\* the pairs of the HOURS MISMATCH warnings logged before the schedule is returned
hours_mismatch(entries) ==
    LET expected_hours(subject_id) ==
            IF \E i \in 1 .. NS : subjects[i].id = subject_id
            THEN subjects[CHOOSE i \in 1 .. NS :
                            /\ subjects[i].id = subject_id
                            /\ \A j \in 1 .. (i - 1) : subjects[j].id # subject_id].hoursPerWeek
            ELSE 0
    IN  {key \in DOMAIN subject_hours_count(entries) :
            subject_hours_count(entries)[key] # expected_hours(key[2])}

error_schedule == [scheduleId |-> "error-schedule", entries |-> <<>>]

(* ------------------------------------------------------------------ *)
(* _generate_mock_schedule                                              *)
(* ------------------------------------------------------------------ *)
\* (class index, subject id) in the order assigned_teachers is filled
MockPairs ==
    Flatten([c1 \in 1 .. NC |->
        LET req == classes[c1].requiredSubjects
        IN  Flatten([j \in 1 .. Len(req) |->
                IF Schedulable(c1 - 1, req[j]) THEN <<<<c1 - 1, req[j]>>>> ELSE <<>>])])

\* available_slots before the shuffle: every (day, time slot), day-major
UnshuffledSlots ==
    Flatten([d1 \in 1 .. ND |-> [ts1 \in 1 .. NTS |-> <<days[d1], time_slots[ts1]>>]])

Shuffles(n) == Permutations(1 .. n)

\* index of the first time slot with this start time
first_slot_index(start) ==
    CHOOSE i \in AllTS :
        Item(time_slots, i)[1] = start /\ \A j \in AllTS : Item(time_slots, j)[1] = start => i <= j

\* the checks without the one that keeps a teacher out of a slot they already teach in
MockConflictButTeacher(e, day, slot, class_id, subject_id, teacher_id) ==
    \/ e.day = day /\ e.startTime = slot[1] /\ e.classId = class_id
    \/ e.day = day /\ e.classId = class_id /\ e.subjectId = subject_id

\* the checks of one candidate slot against one existing entry
MockConflict(e, day, slot, class_id, subject_id, teacher_id) ==
    LET idx == first_slot_index(slot[1])
        same_lesson == e.day = day /\ e.classId = class_id /\ e.subjectId = subject_id
    IN  \/ e.day = day /\ e.startTime = slot[1] /\ e.teacherId = teacher_id
        \/ e.day = day /\ e.startTime = slot[1] /\ e.classId = class_id
        \/ same_lesson
        \/ idx > 0 /\ same_lesson /\ e.startTime = Item(time_slots, idx - 1)[1]
        \/ idx < NTS - 1 /\ same_lesson /\ e.startTime = Item(time_slots, idx + 1)[1]

SyntheticRoomIds ==
    <<"room-0", "room-1", "room-2", "room-3", "room-4", "room-5", "room-6", "room-7",
      "room-8", "room-9", "room-10", "room-11", "room-12", "room-13", "room-14", "room-15">>

\* np.random.choice(self.rooms) if self.rooms else {"id": f"room-{slot_idx}"}
MockRoom(slot_idx, pick) ==
    IF rooms # <<>> THEN Item(rooms, pick).id ELSE Item(SyntheticRoomIds, slot_idx)

\* the scan of the shuffled slots for one (class, subject): entries so far, the
\* slots, the position i in them, the hours still to assign, the room draws
RECURSIVE MockScan(_, _, _, _, _, _, _, _)
MockScan(entries, slots, i, hours_to_assign, class_id, subject_id, teacher_id, room_draws) ==
    IF i > Len(slots) \/ hours_to_assign <= 0 THEN entries
    ELSE LET day == slots[i][1]
             slot == slots[i][2]
             valid_slot ==
                 \A n \in 1 .. Len(entries) :
                     ~MockConflict(entries[n], day, slot, class_id, subject_id, teacher_id)
         IN  IF valid_slot
             THEN MockScan(Append(entries,
                               Entry(day, slot, class_id, subject_id, teacher_id,
                                     MockRoom(i - 1, room_draws[Len(entries) + 1]))),
                           slots, i + 1, hours_to_assign - 1,
                           class_id, subject_id, teacher_id, room_draws)
             ELSE MockScan(entries, slots, i + 1, hours_to_assign,
                           class_id, subject_id, teacher_id, room_draws)

\* the loop over assigned_teachers: pairs from position n on
RECURSIVE MockFill(_, _, _, _, _)
MockFill(entries, n, chosen, slots, room_draws) ==
    IF n > Len(MockPairs) THEN entries
    ELSE LET c == MockPairs[n][1]
             s_id == MockPairs[n][2]
             hours == hours_per_week(subject_index(s_id))
         IN  MockFill(IF hours <= 0 THEN entries
                      ELSE MockScan(entries, slots, 1, hours, Item(classes, c).id, s_id,
                                    Item(teachers, chosen[n]).id, room_draws),
                      n + 1, chosen, slots, room_draws)

\* no fallback schedule holds more entries than the hours its pairs ask for
MockCapacity ==
    LET h == [n \in 1 .. Len(MockPairs) |-> hours_per_week(subject_index(MockPairs[n][2]))]
    IN  SumOver({n \in 1 .. Len(MockPairs) : h[n] > 0}, h)

\* the "Could only assign N/M hours" warnings of a fallback run that returned
\* these entries: hours_to_assign is still positive after the scan of a pair
\* exactly when fewer than hoursPerWeek entries were appended for it
could_only_assign(entries) ==
    LET assigned(n) ==
            Cardinality({i \in 1 .. Len(entries) :
                            /\ entries[i].classId = Item(classes, MockPairs[n][1]).id
                            /\ entries[i].subjectId = MockPairs[n][2]})
        hours(n) == hours_per_week(subject_index(MockPairs[n][2]))
    IN  { [classId |-> Item(classes, MockPairs[n][1]).id, subjectId |-> MockPairs[n][2],
           assigned |-> assigned(n), hours |-> hours(n)] :
            n \in {x \in 1 .. Len(MockPairs) : hours(x) > 0 /\ assigned(x) < hours(x)} }

\* the random draws of one run: a teacher per pair, the shuffle, a room per entry
TeacherDraws ==
    {f \in [1 .. Len(MockPairs) -> AllT] :
        \A n \in 1 .. Len(MockPairs) : f[n] \in valid_teachers(MockPairs[n][2])}

RoomDraws == [1 .. MockCapacity -> IF rooms = <<>> THEN {0} ELSE Range(NR)]

_generate_mock_schedule(chosen, perm, room_draws) ==
    [scheduleId |-> "mock-schedule",
     entries |-> MockFill(<<>>, 1, chosen,
                          [i \in 1 .. Len(UnshuffledSlots) |-> UnshuffledSlots[perm[i]]],
                          room_draws)]

(* ------------------------------------------------------------------ *)
(* actions                                                              *)
(* ------------------------------------------------------------------ *)
Init ==
    /\ request \in Inputs
    /\ data = request
    /\ validation = <<>>
    /\ pc = "start"
    /\ current_minutes = 0
    /\ time_slots = <<>>
    /\ assignment_vars = <<>>
    /\ model = {}
    /\ sol = {}
    /\ status = "NONE"
    /\ raised = "none"
    /\ result = <<>>

\* the exception handler of generate_schedule
Fail(where) ==
    /\ raised' = where
    /\ result' = error_schedule
    /\ pc' = "done"

\* validate_constraints(data)
Validate ==
    /\ pc = "start"
    /\ validation' = validate_constraints(data)
    /\ pc' = "call"
    /\ UNCHANGED <<request, data, current_minutes, time_slots, assignment_vars, model,
                   sol, status, raised, result>>

\* TimetableScheduler(data), up to the time grid loop
Construct ==
    /\ pc = "call"
    /\ data' = [data EXCEPT !.school_settings = WithMaxSubjects(@)]
    /\ IF MissingSettings(school_settings) # {}
       THEN Fail("init") /\ UNCHANGED <<current_minutes, time_slots>>
       ELSE IF GridTimesParse
            THEN /\ current_minutes' = start_minutes
                 /\ pc' = "grid"
                 /\ UNCHANGED <<time_slots, raised, result>>
            ELSE /\ time_slots' = default_time_slots
                 /\ pc' = "ready"
                 /\ UNCHANGED <<current_minutes, raised, result>>
    /\ UNCHANGED <<request, validation, assignment_vars, model, sol, status>>

GridFrame ==
    UNCHANGED <<request, data, validation, assignment_vars, model, sol, status, raised, result>>

GridSkipBreakfast ==
    /\ pc = "grid" /\ LoopCondition
    /\ BreakfastOverlap
    /\ current_minutes' = breakfast_end_minutes
    /\ UNCHANGED <<pc, time_slots>>
    /\ GridFrame

GridSkipLunch ==
    /\ pc = "grid" /\ LoopCondition
    /\ ~BreakfastOverlap /\ LunchOverlap
    /\ current_minutes' = lunch_end_minutes
    /\ UNCHANGED <<pc, time_slots>>
    /\ GridFrame

GridEmit ==
    /\ pc = "grid" /\ LoopCondition
    /\ ~BreakfastOverlap /\ ~LunchOverlap
    /\ time_slots' = Append(time_slots,
                            <<minutes_to_time(current_minutes),
                              minutes_to_time(current_minutes + lesson_duration)>>)
    /\ current_minutes' = current_minutes + lesson_duration + break_duration
    /\ UNCHANGED pc
    /\ GridFrame

GridDone ==
    /\ pc = "grid" /\ ~LoopCondition
    /\ pc' = "ready"
    /\ UNCHANGED <<current_minutes, time_slots>>
    /\ GridFrame

\* solve(): _create_variables
CreateVariables ==
    /\ pc = "ready"
    /\ assignment_vars' = _create_variables
    /\ pc' = "vars"
    /\ UNCHANGED <<request, data, validation, current_minutes, time_slots, model, sol, status,
                   raised, result>>

\* solve(): _add_all_constraints
AddAllConstraints ==
    /\ pc = "vars"
    /\ IF AddConstraintsRaise
       THEN Fail("solve") /\ UNCHANGED model
       ELSE /\ model' = _add_all_constraints
            /\ pc' = "solving"
            /\ UNCHANGED <<raised, result>>
    /\ UNCHANGED <<request, data, validation, current_minutes, time_slots, assignment_vars, sol, status>>

SolverFrame ==
    UNCHANGED <<request, data, validation, current_minutes, time_slots, assignment_vars, model,
                raised, result>>

\* the solver's search sets one more variable to 1
SolverAssign(k) ==
    /\ pc = "solving"
    /\ k \notin sol
    /\ \A con \in model : Mentions(con, k) => Admits(con, sol \cup {k})
    /\ sol' = sol \cup {k}
    /\ UNCHANGED <<pc, status>>
    /\ SolverFrame

\* self.solver.Solve(self.model) returns with an assignment
SolverFinds ==
    /\ pc = "solving"
    /\ Satisfies(sol)
    /\ status' \in (IF ProvedOptimal(sol) THEN {"OPTIMAL", "FEASIBLE"} ELSE {"FEASIBLE"})
    /\ pc' = "solved"
    /\ UNCHANGED sol
    /\ SolverFrame

\* self.solver.Solve(self.model) returns without one: the time limit passed
\* (UNKNOWN) or the search proved there is none (INFEASIBLE). The model lets
\* either answer come back for any constraint set, a superset of what a sound
\* solver does.
SolverGivesUp ==
    /\ pc = "solving"
    /\ status' \in {"INFEASIBLE", "UNKNOWN"}
    /\ pc' = "solved"
    /\ sol' = {}
    /\ SolverFrame

\* a FEASIBLE answer is treated as a failed solve
OnlyOptimalCounts == status = "OPTIMAL"

solve_returns_true == status \in {"OPTIMAL", "FEASIBLE"}

\* return scheduler.extract_solution()
ExtractSolution ==
    /\ pc = "solved"
    /\ solve_returns_true
    /\ IF ExtractRaises
       THEN Fail("extract")
       ELSE /\ result' = extract_solution
            /\ pc' = "done"
            /\ UNCHANGED raised
    /\ UNCHANGED <<request, data, validation, current_minutes, time_slots, assignment_vars, model,
                   sol, status>>

\* return scheduler._generate_mock_schedule()
MockSchedule ==
    /\ pc = "solved"
    /\ ~solve_returns_true
    /\ \E chosen \in TeacherDraws, perm \in Shuffles(ND * NTS), room_draws \in RoomDraws :
            result' = _generate_mock_schedule(chosen, perm, room_draws)
    /\ pc' = "done"
    /\ UNCHANGED <<request, data, validation, current_minutes, time_slots, assignment_vars, model,
                   sol, status, raised>>

Next ==
    \/ Validate
    \/ Construct
    \/ GridSkipBreakfast
    \/ GridSkipLunch
    \/ GridEmit
    \/ GridDone
    \/ CreateVariables
    \/ AddAllConstraints
    \/ \E k \in Keys : SolverAssign(k)
    \/ SolverFinds
    \/ SolverGivesUp
    \/ ExtractSolution
    \/ MockSchedule

Spec == Init /\ [][Next]_vars

(* ------------------------------------------------------------------ *)
(* properties of the returned schedule                                  *)
(* ------------------------------------------------------------------ *)
Done == pc = "done"

Generated == Done /\ result.scheduleId = "generated-schedule"

Entries == SeqToSet(result.entries)

\* number of entries (positions of the sequence) with a property
CountEntries(P(_)) == Cardinality({i \in 1 .. Len(result.entries) : P(result.entries[i])})

ClassIds == {classes[i].id : i \in 1 .. NC}
TeacherIds == {teachers[i].id : i \in 1 .. NT}
SubjectById(s_id) == CHOOSE x \in SeqToSet(subjects) : x.id = s_id
TeacherById(t_id) == CHOOSE x \in SeqToSet(teachers) : x.id = t_id
QualifiedTeachers(s_id) == {x \in SeqToSet(teachers) : s_id \in x.subjects}

EntryStart(e) == time_to_minutes(e.startTime)
EntryEnd(e) == time_to_minutes(e.endTime)

LessonsOf(class_id, s_id) ==
    LET P(e) == e.classId = class_id /\ e.subjectId = s_id IN CountEntries(P)

\* C1: for every input that validate reports feasible and for which generate
\* returns a generated-schedule, every class c and every subject s of
\* c.requiredSubjects has exactly hoursPerWeek(s) entries.
C1_ExactHoursForEveryRequiredSubject ==
    (Generated /\ validation.feasible) =>
        \A i \in 1 .. NC : \A s_id \in SeqToSet(classes[i].requiredSubjects) :
            LessonsOf(classes[i].id, s_id) = SubjectById(s_id).hoursPerWeek

\* C2: in a generated-schedule all entries of one (class, subject) carry one
\* teacherId, and that teacher's subjects list contains the subject.
C2_OneQualifiedTeacherPerClassSubject ==
    Generated =>
        \A e1 \in Entries, e2 \in Entries :
            /\ (e1.classId = e2.classId /\ e1.subjectId = e2.subjectId)
                    => e1.teacherId = e2.teacherId
            /\ e1.subjectId \in TeacherById(e1.teacherId).subjects

C2_Witness ==
    /\ Generated
    /\ \E e \in Entries :
          /\ LessonsOf(e.classId, e.subjectId) >= 2
          /\ Cardinality(QualifiedTeachers(e.subjectId)) >= 2

\* C3: in a generated-schedule a teacher has at most one entry per day and
\* time slot.
C3_TeacherNeverInTwoLessons ==
    Generated =>
        \A t_id \in TeacherIds, e \in Entries :
            LET P(x) == x.teacherId = t_id /\ x.day = e.day /\ x.startTime = e.startTime
                        /\ x.endTime = e.endTime
            IN  CountEntries(P) <= 1

\* a teacher who teaches two classes, both scheduled
C3_Witness ==
    /\ Generated
    /\ \E e1 \in Entries, e2 \in Entries :
          e1.teacherId = e2.teacherId /\ e1.classId # e2.classId

\* C4: in a generated-schedule a class has at most one entry per day and time
\* slot.
C4_ClassNeverInTwoLessons ==
    Generated =>
        \A c_id \in ClassIds, e \in Entries :
            LET P(x) == x.classId = c_id /\ x.day = e.day /\ x.startTime = e.startTime
                        /\ x.endTime = e.endTime
            IN  CountEntries(P) <= 1

\* a class with two subjects taught by different teachers, both scheduled
C4_Witness ==
    /\ Generated
    /\ \E e1 \in Entries, e2 \in Entries :
          /\ e1.classId = e2.classId /\ e1.subjectId # e2.subjectId
          /\ e1.teacherId # e2.teacherId

\* C5: with useRoomConstraints true, in a generated-schedule a room has at
\* most one entry per day and time slot.
C5_RoomNeverHoldsTwoLessons ==
    (Generated /\ use_room_constraints) =>
        \A e \in Entries :
            LET P(x) == x.roomId = e.roomId /\ x.day = e.day /\ x.startTime = e.startTime
                        /\ x.endTime = e.endTime
            IN  CountEntries(P) <= 1

\* two classes with different teachers share the one room of the school
C5_Witness ==
    /\ Generated /\ use_room_constraints /\ NR = 1
    /\ \E e1 \in Entries, e2 \in Entries :
          e1.classId # e2.classId /\ e1.teacherId # e2.teacherId /\ e1.day = e2.day

\* [a, b) and [c, d) share a minute
Intersects(a, b, c, d) == \E m \in a .. (b - 1) : c <= m /\ m < d

EntryIntersects(e, from, to) == Intersects(EntryStart(e), EntryEnd(e), from, to)

FreePeriodTargets(p, e) ==
    /\ e.day \in p.days \/ "all" \in p.days
    /\ "all" \in p.forClasses \/ e.classId \in p.forClasses

FreePeriodStart(p) == time_to_minutes(p.startTime)
FreePeriodEnd(p) == FreePeriodStart(p) + period_duration(p)

\* C6: in a generated-schedule no entry intersects the lunch window, none
\* intersects the breakfast window when hasBreakfastBreak, and none intersects
\* a free period that applies to the entry's day and class.
C6_NoLessonInBreakOrFreePeriod ==
    Generated =>
        \A e \in Entries :
            /\ ~EntryIntersects(e, lunch_start_minutes, lunch_end_minutes)
            /\ has_breakfast_break =>
                    ~EntryIntersects(e, breakfast_start_minutes, breakfast_end_minutes)
            /\ \A i \in TimedFreePeriods :
                    FreePeriodTargets(free_periods[i], e) =>
                        ~EntryIntersects(e, FreePeriodStart(free_periods[i]),
                                         FreePeriodEnd(free_periods[i]))

\* a free period for class c1 only: c1 has lessons, none inside it, and another
\* class has a lesson inside it on a day it names
C6_Witness ==
    /\ Generated
    /\ \E i \in TimedFreePeriods :
          LET p == free_periods[i]
          IN  /\ p.forClasses = {"c1"}
              /\ \E e \in Entries : e.classId = "c1"
              /\ \E e \in Entries :
                    /\ e.classId # "c1"
                    /\ e.day \in p.days \/ "all" \in p.days
                    /\ EntryIntersects(e, FreePeriodStart(p), FreePeriodEnd(p))

LessonsOfTeacher(t_id) == LET P(e) == e.teacherId = t_id IN CountEntries(P)

LessonsOfTeacherOn(t_id, day) ==
    LET P(e) == e.teacherId = t_id /\ e.day = day IN CountEntries(P)

DailyCap(t) == IF Has(t, "maxHoursPerDay") THEN t.maxHoursPerDay ELSE 5
WeeklyCap(t) == IF Has(t, "maxHoursPerWeek") THEN t.maxHoursPerWeek ELSE 20

\* C8: in a generated-schedule a teacher has at most maxHoursPerDay entries on
\* any day and at most maxHoursPerWeek entries in all, 5 and 20 when absent.
C8_TeacherCaps ==
    Generated =>
        \A t \in SeqToSet(teachers) :
            /\ \A day \in SeqToSet(days) : LessonsOfTeacherOn(t.id, day) <= DailyCap(t)
            /\ LessonsOfTeacher(t.id) <= WeeklyCap(t)

\* a teacher at the daily cap on a day, with more lessons in the week than one
\* day may hold
C8_Witness ==
    /\ Generated
    /\ \E t \in SeqToSet(teachers) :
          /\ Has(t, "maxHoursPerDay") /\ Has(t, "maxHoursPerWeek")
          /\ \E day \in SeqToSet(days) : LessonsOfTeacherOn(t.id, day) = t.maxHoursPerDay
          /\ LessonsOfTeacher(t.id) > t.maxHoursPerDay
          /\ LessonsOfTeacher(t.id) = t.maxHoursPerWeek

InWindow(t, e) ==
    \E i \in 1 .. Len(t.availability) :
        /\ t.availability[i].day = e.day
        /\ \E w \in t.availability[i].timeSlots :
              w.startTime = e.startTime /\ w.endTime = e.endTime

Restricted(t) == Has(t, "availability") /\ t.availability # <<>>

\* C9: in a generated-schedule every entry of a teacher with a non-empty
\* availability list lies in a (day, startTime, endTime) window of that list;
\* a teacher none of whose windows is a grid slot has no entries.
C9_LessonsInsideAvailability ==
    Generated =>
        \A t \in SeqToSet(teachers) :
            Restricted(t) => \A e \in Entries : e.teacherId = t.id => InWindow(t, e)

\* a restricted teacher teaches, and some slot of the week is outside the windows
C9_Witness ==
    /\ Generated
    /\ \E t \in SeqToSet(teachers) :
          /\ Restricted(t)
          /\ \E e \in Entries : e.teacherId = t.id
          /\ \E d \in AllD, ts \in AllTS :
                ~InWindow(t, Entry(Item(days, d), Item(time_slots, ts), "", "", "", ""))

SubjectsTaught(class_id, day) ==
    {e.subjectId : e \in {x \in Entries : x.classId = class_id /\ x.day = day}}

LessonsOn(class_id, day, s_id) ==
    LET P(e) == e.classId = class_id /\ e.day = day /\ e.subjectId = s_id IN CountEntries(P)

\* maxSubjectsPerDay as the caller gave it, lessonsPerDay when the key is absent
MaxSubjectsGiven ==
    IF Has(request.school_settings, "maxSubjectsPerDay")
    THEN request.school_settings["maxSubjectsPerDay"]
    ELSE request.school_settings["lessonsPerDay"]

MinSubjectsGiven ==
    IF Has(request.school_settings, "minSubjectsPerDay")
    THEN request.school_settings["minSubjectsPerDay"] ELSE <<>>

\* C7: in a generated-schedule, for every class and working day the number of
\* distinct subjects is at most maxSubjectsPerDay (lessonsPerDay when absent)
\* and, when minSubjectsPerDay is given, at least minSubjectsPerDay; and every
\* (class, day, subject) has at most one entry.
C7_SubjectsPerDayWithinBounds ==
    Generated =>
        \A c_id \in ClassIds, day \in SeqToSet(days) :
            /\ ~IsNone(MaxSubjectsGiven) =>
                    Cardinality(SubjectsTaught(c_id, day)) <= MaxSubjectsGiven[1]
            /\ ~IsNone(MinSubjectsGiven) =>
                    Cardinality(SubjectsTaught(c_id, day)) >= MinSubjectsGiven[1]
            /\ \A s_id \in subject_indices : LessonsOn(c_id, day, s_id) <= 1

Prefix == result.scheduleId

\* C10: generate returns a record {scheduleId, entries} and no exception
\* leaves it: once one is raised the call has returned the error-schedule. The
\* id is generated-schedule exactly when the status is OPTIMAL or FEASIBLE and
\* nothing raised, mock-schedule exactly when the solver finished with another
\* status and nothing raised, error-schedule exactly when an exception was
\* caught; an error-schedule has no entries.
C10_OutcomeClassification ==
    /\ raised # "none" => Done /\ result = error_schedule
    /\ Done =>
          /\ DOMAIN result = {"scheduleId", "entries"}
          /\ Prefix \in {"generated-schedule", "mock-schedule", "error-schedule"}
          /\ Prefix = "generated-schedule"
                <=> (status \in {"OPTIMAL", "FEASIBLE"} /\ raised = "none")
          /\ Prefix = "mock-schedule"
                <=> (status \in {"INFEASIBLE", "UNKNOWN"} /\ raised = "none")
          /\ Prefix = "error-schedule" <=> raised # "none"
          /\ Prefix = "error-schedule" => result.entries = <<>>

\* the solver answered OPTIMAL or FEASIBLE and extraction raised
C10_Witness ==
    /\ Done
    /\ status \in {"OPTIMAL", "FEASIBLE"}
    /\ raised = "extract"
    /\ result = error_schedule

(* ------------------------------------------------------------------ *)
(* the time grid                                                        *)
(* ------------------------------------------------------------------ *)
\* _generate_time_slots has returned
GridReturned == pc \notin {"start", "call", "grid"} /\ raised # "init"

StartGiven == request.school_settings["startTime"][1]
EndGiven == request.school_settings["endTime"][1]
LunchGiven == request.school_settings["lunchBreakStartTime"][1]
BreakfastGiven == request.school_settings["breakfastBreakStartTime"][1]

\* the greedy rule: try [cur, cur + lessonDuration]; on an overlap with a break
\* jump to that break's end; else emit and advance by lessonDuration +
\* breakDuration; stop when cur + lessonDuration > endTime
RECURSIVE GreedyGrid(_, _)
GreedyGrid(cur, emitted) ==
    LET len == request.school_settings["lessonDuration"][1]
        gap == request.school_settings["breakDuration"][1]
        bf_from == time_to_minutes(BreakfastGiven)
        bf_to == bf_from + request.school_settings["breakfastBreakDuration"][1]
        lu_from == time_to_minutes(LunchGiven)
        lu_to == lu_from + request.school_settings["lunchBreakDuration"][1]
    IN  IF cur + len > time_to_minutes(EndGiven) THEN emitted
        ELSE IF request.school_settings["hasBreakfastBreak"][1]
                /\ cur < bf_to /\ cur + len > bf_from
        THEN GreedyGrid(bf_to, emitted)
        ELSE IF cur < lu_to /\ cur + len > lu_from
        THEN GreedyGrid(lu_to, emitted)
        ELSE GreedyGrid(cur + len + gap,
                        Append(emitted, <<minutes_to_time(cur), minutes_to_time(cur + len)>>))

\* the properties the returned grid is to have; a property that refers to a
\* time string of the settings is read only when that string parses
GridAsSpecified ==
    LET len == request.school_settings["lessonDuration"][1]
        gap == request.school_settings["breakDuration"][1]
    IN  /\ \A i \in Range(NTS) : SlotEnd(i) - SlotStart(i) = len
        /\ \A i \in Range(NTS), j \in Range(NTS) :
              j = i + 1 => SlotStart(i) < SlotStart(j) /\ SlotStart(j) >= SlotEnd(i) + gap
        /\ (Parseable(StartGiven) /\ Parseable(EndGiven)) =>
              \A i \in Range(NTS) :
                  time_to_minutes(StartGiven) <= SlotStart(i)
                  /\ SlotEnd(i) <= time_to_minutes(EndGiven)
        /\ Parseable(LunchGiven) =>
              \A i \in Range(NTS) :
                  ~Intersects(SlotStart(i), SlotEnd(i), time_to_minutes(LunchGiven),
                              time_to_minutes(LunchGiven)
                                + request.school_settings["lunchBreakDuration"][1])
        /\ (request.school_settings["hasBreakfastBreak"][1] /\ Parseable(BreakfastGiven)) =>
              \A i \in Range(NTS) :
                  ~Intersects(SlotStart(i), SlotEnd(i), time_to_minutes(BreakfastGiven),
                              time_to_minutes(BreakfastGiven)
                                + request.school_settings["breakfastBreakDuration"][1])
        /\ GridTimesParse => time_slots = GreedyGrid(time_to_minutes(StartGiven), <<>>)

\* C11: the grid the builder returns has slots in strictly increasing start
\* order, each lessonDuration long, each inside [startTime, endTime], none
\* intersecting the lunch window nor (when hasBreakfastBreak) the breakfast
\* window, consecutive ones at least breakDuration apart, and it is the result
\* of the greedy rule.
C11_GridAsSpecified == GridReturned => GridAsSpecified

\* the same for the settings whose time strings all parse: the loop of
\* _generate_time_slots ran and the fallback grid was not used
GridAsSpecifiedWhenTimesParse == (GridReturned /\ GridTimesParse) => GridAsSpecified

\* a grid built by the loop that jumped over a break between two slots
GridJumpedBreak ==
    /\ GridReturned /\ GridTimesParse /\ NTS >= 2
    /\ SlotStart(1) > SlotEnd(0) + request.school_settings["breakDuration"][1]

(* ------------------------------------------------------------------ *)
(* the sample school                                                    *)
(* ------------------------------------------------------------------ *)
AllTaughtBy(s_id, t_id) == \A e \in Entries : e.subjectId = s_id => e.teacherId = t_id

\* C12: for the sample school (math 5, english 6, science 4 hours, five
\* working days) generate ends with status OPTIMAL or FEASIBLE and returns
\* 5 math + 6 english entries for class-1, 4 science + 6 english entries for
\* class-2, teacher-1 on all math and science and teacher-2 on all english.
C12_SampleSchoolIsScheduled ==
    (Done /\ request = sample_data) =>
        /\ Generated
        /\ LessonsOf("class-1", "math") = 5 /\ LessonsOf("class-1", "english") = 6
        /\ LessonsOf("class-2", "science") = 4 /\ LessonsOf("class-2", "english") = 6
        /\ Len(result.entries) = 21
        /\ AllTaughtBy("math", "teacher-1") /\ AllTaughtBy("science", "teacher-1")
        /\ AllTaughtBy("english", "teacher-2")

(* ------------------------------------------------------------------ *)
(* configuration and input errors                                       *)
(* ------------------------------------------------------------------ *)
\* C13: when the time grid builder returns no slot, generate fails with a
\* configuration error: the result is an error result with no entries, not a
\* generated-schedule or a mock-schedule.
C13_EmptyGridIsAnError ==
    (Done /\ GridReturned /\ NTS = 0) =>
        Prefix = "error-schedule" /\ result.entries = <<>>

TimeKeys == {"startTime", "endTime", "breakfastBreakStartTime", "lunchBreakStartTime"}

\* every required setting is given and one of the four time strings is not HH:MM
MalformedTime ==
    /\ MissingSettings(request.school_settings) = {}
    /\ \E k \in TimeKeys : ~Parseable(request.school_settings[k][1])

\* C14: when a time string of the settings does not parse as HH:MM, generate
\* fails with a configuration error and returns no lesson entries; no lesson
\* is scheduled on a grid that was not derived from the settings.
C14_MalformedTimeIsAnError ==
    (Done /\ MalformedTime) =>
        Prefix = "error-schedule" /\ result.entries = <<>>

\* the thirteen settings a school has to give
SettingsToGive ==
    {"startTime", "endTime", "lessonDuration", "breakDuration", "hasBreakfastBreak",
     "breakfastBreakStartTime", "breakfastBreakDuration", "lunchBreakStartTime",
     "lunchBreakDuration", "lessonsPerDay", "daysPerWeek", "workingDays",
     "useRoomConstraints"}

\* a setting to give is absent from the caller's record, or null
NotGiven ==
    {k \in SettingsToGive :
        ~Has(request.school_settings, k) \/ IsNone(request.school_settings[k])}

\* C15: when one of the thirteen required settings is absent or null,
\* construction raises before the time grid is built and before the solver is
\* called, and generate returns the error-schedule with no entries; an absent
\* maxSubjectsPerDay alone does not make construction raise.
C15_MissingSettingRaisesAtConstruction ==
    /\ (NotGiven # {} /\ pc \notin {"start", "call"}) =>
          /\ Done /\ raised = "init"
          /\ Prefix = "error-schedule" /\ result.entries = <<>>
          /\ time_slots = <<>> /\ current_minutes = 0
          /\ assignment_vars = <<>> /\ model = {} /\ sol = {} /\ status = "NONE"
    /\ (NotGiven = {} /\ ~Has(request.school_settings, "maxSubjectsPerDay")) =>
          raised # "init"

\* a required setting given as null: the call has returned the error-schedule
C15_Witness ==
    /\ Done /\ raised = "init" /\ result = error_schedule
    /\ \E k \in SettingsToGive :
          Has(request.school_settings, k) /\ IsNone(request.school_settings[k])

(* ------------------------------------------------------------------ *)
(* validate                                                             *)
(* ------------------------------------------------------------------ *)
Validated == pc # "start"

\* C16: validate reports an issue for every missing required setting: an
\* input it reports feasible has all thirteen settings, and generate on it
\* never fails for a missing setting.
C16_FeasibleInputHasEverySetting ==
    (Validated /\ validation.feasible) => NotGiven = {} /\ raised # "init"

DurationKeys ==
    {"lessonDuration", "breakDuration", "breakfastBreakDuration", "lunchBreakDuration"}

\* the durations of the caller's record that are zero or negative
NonPositiveDurations ==
    {k \in DurationKeys :
        /\ Has(request.school_settings, k)
        /\ ~IsNone(request.school_settings[k])
        /\ request.school_settings[k][1] <= 0}

\* C17: validate returns feasible = false, with an issue, whenever
\* lessonDuration, breakDuration, breakfastBreakDuration or lunchBreakDuration
\* is zero or negative.
C17_NonPositiveDurationIsInfeasible ==
    (Validated /\ NonPositiveDurations # {}) =>
        ~validation.feasible /\ validation.issues # {}

\* C18: validate reports the fewer-rooms-than-classes issue and the no-rooms
\* issue only when useRoomConstraints is enabled: with useRoomConstraints
\* false neither is reported, whatever the number of rooms.
C18_RoomIssuesOnlyWithRoomConstraints ==
    (Validated /\ Has(request.school_settings, "useRoomConstraints")
               /\ request.school_settings["useRoomConstraints"] = <<FALSE>>) =>
        validation.issues \cap {"not_enough_rooms", "no_rooms"} = {}

(* ------------------------------------------------------------------ *)
(* the fallback schedule                                                *)
(* ------------------------------------------------------------------ *)
\* every required subject of the class is in the catalog and has a teacher,
\* and together they ask for more hours than the week has slots
Overbooked(c) ==
    LET req == Item(classes, c).requiredSubjects
        asked == [j \in 1 .. Len(req) |-> SubjectById(req[j]).hoursPerWeek]
    IN  /\ \A j \in 1 .. Len(req) :
              req[j] \in subject_indices /\ QualifiedTeachers(req[j]) # {}
        /\ SumOver(1 .. Len(req), asked) > ND * NTS

\* C19: whenever some class whose required subjects all exist and all have a
\* qualified teacher asks for more weekly hours than working days x slots,
\* generate returns a mock-schedule and the fallback logs at least one
\* "Could only assign N/M hours" warning, N being the number of entries
\* emitted for that (class, subject) and M its hoursPerWeek.
C19_OverbookedClassGetsMockSchedule ==
    (Done /\ GridReturned /\ \E c \in Range(NC) : Overbooked(c)) =>
        /\ Prefix = "mock-schedule"
        /\ \E w \in could_only_assign(result.entries) :
              w.assigned = LessonsOf(w.classId, w.subjectId) /\ w.assigned < w.hours

\* the same when the grid has a slot, the school has a room and nothing raised
MockWarnsWhenOverbooked ==
    (Done /\ raised = "none" /\ NTS > 0 /\ NR > 0 /\ \E c \in Range(NC) : Overbooked(c)) =>
        Prefix = "mock-schedule" /\ could_only_assign(result.entries) # {}

(* ------------------------------------------------------------------ *)
(* a required subject nobody teaches                                    *)
(* ------------------------------------------------------------------ *)
\* (class id, subject id): the class requires the subject, the catalog has
\* it, no teacher lists it
Untaught ==
    UNION { { <<classes[c].id, s_id>> :
                s_id \in {x \in SeqToSet(classes[c].requiredSubjects) :
                            x \in subject_indices /\ QualifiedTeachers(x) = {}} } :
            c \in 1 .. NC }

\* some class requires a subject id the catalog does not have
DanglingRequirement ==
    \E c \in 1 .. NC :
        \E x \in SeqToSet(classes[c].requiredSubjects) : x \notin subject_indices

\* C20: when a class requires a subject of the catalog that no teacher can
\* teach, validate raises no dangling-reference issue for it, the schedule
\* generate returns has no entry for that (class, subject), and the
\* self-audit made while the solution is extracted logs a warning about that
\* (class, subject).
C20_UntaughtSubjectIsAudited ==
    \A pair \in Untaught :
        /\ (Validated /\ ~DanglingRequirement) =>
              "class_requires_unknown_subject" \notin validation.issues
        /\ (Done /\ raised = "none") => LessonsOf(pair[1], pair[2]) = 0
        /\ Generated => pair \in hours_mismatch(result.entries)

\* the first two parts alone
UntaughtSubjectHasNoEntries ==
    \A pair \in Untaught :
        /\ (Validated /\ ~DanglingRequirement) =>
              "class_requires_unknown_subject" \notin validation.issues
        /\ (Done /\ raised = "none") => LessonsOf(pair[1], pair[2]) = 0

(* ------------------------------------------------------------------ *)
(* lunch at nine                                                        *)
(* ------------------------------------------------------------------ *)
\* startTime 08:00, endTime 10:00, lessons of 60 minutes, lunch 09:00 for 30
\* minutes, no breakfast break, breakDuration >= 0
LunchAtNine ==
    /\ NotGiven = {}
    /\ StartGiven = T(8, 0) /\ EndGiven = T(10, 0)
    /\ request.school_settings["lessonDuration"] = <<60>>
    /\ LunchGiven = T(9, 0) /\ request.school_settings["lunchBreakDuration"] = <<30>>
    /\ request.school_settings["hasBreakfastBreak"] = <<FALSE>>
    /\ request.school_settings["breakDuration"][1] >= 0

\* C21: with startTime 08:00, endTime 10:00, lessonDuration 60, lunch at 09:00
\* for 30 minutes, no breakfast break and breakDuration >= 0, the time grid is
\* the single slot 08:00-09:00 and no entry of a generated-schedule or a
\* mock-schedule intersects 09:00-09:30.
C21_LunchAtNineLeavesOneSlot ==
    (LunchAtNine /\ GridReturned) =>
        /\ time_slots = << <<T(8, 0), T(9, 0)>> >>
        /\ Done => \A e \in Entries : ~EntryIntersects(e, 9 * 60, 9 * 60 + 30)

\* a fallback schedule with a lesson, for the grid with a pause between lessons
C21_Witness ==
    /\ LunchAtNine /\ Done /\ Prefix = "mock-schedule"
    /\ request.school_settings["breakDuration"][1] > 0
    /\ result.entries # <<>>

(* ------------------------------------------------------------------ *)
(* rooms of the entries                                                 *)
(* ------------------------------------------------------------------ *)
RoomIds == {rooms[i].id : i \in 1 .. NR}

\* C22: in every generated-schedule and mock-schedule the roomId of an entry
\* is the id of a room of the input when useRoomConstraints is true, and the
\* id of the entry's own class when useRoomConstraints is false.
C22_RoomIdFollowsRoomConstraints ==
    (Done /\ Prefix \in {"generated-schedule", "mock-schedule"}) =>
        \A e \in Entries :
            IF use_room_constraints THEN e.roomId \in RoomIds ELSE e.roomId = e.classId

\* the same for the generated-schedule alone
GeneratedRoomIdFollowsRoomConstraints ==
    Generated =>
        \A e \in Entries :
            IF use_room_constraints THEN e.roomId \in RoomIds ELSE e.roomId = e.classId

(* ------------------------------------------------------------------ *)
(* lessons per day                                                      *)
(* ------------------------------------------------------------------ *)
ExactLessonsGiven ==
    /\ Has(request.school_settings, "exactLessonsPerDay")
    /\ ~IsNone(request.school_settings["exactLessonsPerDay"])

\* the class requires a subject of the catalog that some teacher can teach
HasSchedulablePair(c) ==
    \E s_id \in SeqToSet(classes[c].requiredSubjects) :
        s_id \in subject_indices /\ QualifiedTeachers(s_id) # {}

LessonsOfClassOn(class_id, day) ==
    LET P(e) == e.classId = class_id /\ e.day = day IN CountEntries(P)

\* C23: when exactLessonsPerDay is set, in a generated-schedule every class
\* with at least one schedulable (class, subject) pair has exactly
\* exactLessonsPerDay entries on every working day.
C23_ExactLessonsPerDay ==
    (Generated /\ ExactLessonsGiven) =>
        \A c \in 1 .. NC, day \in SeqToSet(days) :
            HasSchedulablePair(c) =>
                LessonsOfClassOn(classes[c].id, day)
                    = request.school_settings["exactLessonsPerDay"][1]

\* the same when the grid has a slot and the school has a room
ExactLessonsPerDayOnARealGrid ==
    (Generated /\ ExactLessonsGiven /\ NTS > 0 /\ NR > 0) =>
        \A c \in 1 .. NC, day \in SeqToSet(days) :
            HasSchedulablePair(c) =>
                LessonsOfClassOn(classes[c].id, day)
                    = request.school_settings["exactLessonsPerDay"][1]

(* ------------------------------------------------------------------ *)
(* the fallback schedule entry by entry                                 *)
(* ------------------------------------------------------------------ *)
\* what has to hold of the entries accepted so far
MockEntriesConsistent(es) ==
    LET n == Len(es)
    IN  /\ \A i \in 1 .. n, j \in 1 .. n :
              i # j =>
                /\ ~(es[i].teacherId = es[j].teacherId /\ es[i].day = es[j].day
                      /\ es[i].startTime = es[j].startTime)
                /\ ~(es[i].classId = es[j].classId /\ es[i].day = es[j].day
                      /\ es[i].startTime = es[j].startTime)
                /\ ~(es[i].classId = es[j].classId /\ es[i].day = es[j].day
                      /\ es[i].subjectId = es[j].subjectId)
                /\ (es[i].classId = es[j].classId /\ es[i].subjectId = es[j].subjectId)
                      => es[i].teacherId = es[j].teacherId
        /\ \A i \in 1 .. n :
              /\ es[i].teacherId \in {x.id : x \in QualifiedTeachers(es[i].subjectId)}
              /\ Cardinality({j \in 1 .. n : es[j].classId = es[i].classId
                                              /\ es[j].subjectId = es[i].subjectId})
                    <= SubjectById(es[i].subjectId).hoursPerWeek

\* C24: every mock-schedule satisfies, after each accepted entry and at
\* return: no teacher and no class has two entries with the same day and
\* start time, each (class, day, subject) has at most one entry, all entries
\* of a (class, subject) carry one teacher, who is qualified for the subject,
\* and each (class, subject) has at most hoursPerWeek entries.
C24_MockScheduleIsConsistent ==
    (Done /\ Prefix = "mock-schedule") =>
        \A n \in 0 .. Len(result.entries) : MockEntriesConsistent(SubSeq(result.entries, 1, n))

\* a fallback schedule in which one teacher teaches two classes
C24_Witness ==
    /\ Done /\ Prefix = "mock-schedule"
    /\ \E e1 \in Entries, e2 \in Entries :
          e1.teacherId = e2.teacherId /\ e1.classId # e2.classId

(* ------------------------------------------------------------------ *)
(* two runs on the same input                                           *)
(* ------------------------------------------------------------------ *)
\* the entry sequences generate can return once the solver has answered with
\* this status and this assignment
EntriesToReturn ==
    IF solve_returns_true
    THEN {IF ExtractRaises THEN <<>> ELSE extract_solution.entries}
    ELSE {_generate_mock_schedule(chosen, perm, room_draws).entries :
            chosen \in TeacherDraws, perm \in Shuffles(ND * NTS), room_draws \in RoomDraws}

\* C25: two runs of generate on the same input in which the solver returns
\* the same status and the same assignment return the same sequence of
\* entries; in particular the fallback schedule is determined by the input.
C25_SameInputSameEntries ==
    pc = "solved" => Cardinality(EntriesToReturn) = 1

(* ------------------------------------------------------------------ *)
(* balanced distribution against no-repeat                              *)
(* ------------------------------------------------------------------ *)
\* the constraints have just been posted
Posted == pc = "solving" /\ sol = {}

\* <<balanced bound, no-repeat bound>> posted on the same variables of a
\* (class, subject, day)
BoundsOnTheSameDay ==
    {x \in _add_balanced_distribution_constraint \X NoRepeatPerDay : x[1].vars = x[2].vars}

\* every assignment of the variables that a allows, b allows
AtLeastAsTight(a, b) == \A asg \in SUBSET a.vars : Holds(a, asg) => Holds(b, asg)

\* C26: with balanceSubjectsAcrossDays true, for a (class, subject) of two or
\* more weekly hours the balanced bound is strictly tighter than the
\* no-repeat bound: what the balanced bound allows the no-repeat bound
\* allows, and the balanced bound excludes something the no-repeat bound allows.
C26_BalancedTighterThanNoRepeat ==
    Posted =>
        \A x \in BoundsOnTheSameDay :
            AtLeastAsTight(x[1], x[2]) /\ ~AtLeastAsTight(x[2], x[1])

\* C26 as it holds: the no-repeat bound is at least as tight as the balanced
\* bound, the two bounds are the same for two weekly hours, and from three
\* weekly hours on the balanced bound allows two lessons on a day, which the
\* no-repeat bound excludes.
C26_NoRepeatAtLeastAsTight ==
    Posted =>
        \A x \in BoundsOnTheSameDay :
            /\ x[2].bound = 1
            /\ AtLeastAsTight(x[2], x[1])
            /\ x[1].bound = 1 => AtLeastAsTight(x[1], x[2])
            /\ (x[1].bound = 2 /\ Cardinality(x[1].vars) >= 2) => ~AtLeastAsTight(x[1], x[2])
            /\ \A c \in AllC, s \in AllS :
                  (\E k \in x[1].vars : k[1] = c /\ k[2] = s) =>
                      x[1].bound = Min2(2, hours_per_week(s) - 1)

\* both bounds posted for a subject of three weekly hours: two lessons on a day
\* pass the balanced bound
C26_Witness ==
    /\ Posted
    /\ \E x \in BoundsOnTheSameDay : x[1].bound = 2 /\ Cardinality(x[1].vars) >= 2

(* ------------------------------------------------------------------ *)
(* the pseudo-room                                                      *)
(* ------------------------------------------------------------------ *)
\* (class id, subject id) the class requires, of the catalog, with weekly
\* hours and a teacher
Demanded ==
    UNION { { <<classes[c].id, s_id>> :
                s_id \in {x \in SeqToSet(classes[c].requiredSubjects) :
                            /\ x \in subject_indices
                            /\ QualifiedTeachers(x) # {}
                            /\ SubjectById(x).hoursPerWeek > 0} } :
            c \in 1 .. NC }

DemandMet == \A pair \in Demanded : LessonsOf(pair[1], pair[2]) = SubjectById(pair[2]).hoursPerWeek

\* C27: with useRoomConstraints false all decision variables are at
\* pseudo-room 0 and the hard constraints are applied to them whatever the
\* rooms list holds: with an empty rooms list a generated-schedule has exactly
\* hoursPerWeek entries per demanded (class, subject) and generate does not
\* return an error-schedule.
C27_PseudoRoomIgnoresRoomsList ==
    (GridReturned /\ ~use_room_constraints) =>
        /\ \A k \in Keys : k[4] = 0
        /\ (rooms = <<>> /\ NTS > 0 /\ Done) =>
              /\ Prefix # "error-schedule"
              /\ Generated => DemandMet

\* the same for a rooms list that is not empty
PseudoRoomWithSomeRoom ==
    (GridReturned /\ ~use_room_constraints) =>
        /\ \A k \in Keys : k[4] = 0
        /\ (rooms # <<>> /\ NTS > 0 /\ Generated) => DemandMet

(* ------------------------------------------------------------------ *)
(* what an OPTIMAL schedule minimises                                   *)
(* ------------------------------------------------------------------ *)
HasLesson(es, field, id, day, i) ==
    \E e \in es : e[field] = id /\ e.day = day /\ e.startTime = time_slots[i][1]

\* inner slots of the day without a lesson between two slots with one
Gaps(es, field, id, day) ==
    Cardinality({i \in 2 .. NTS - 1 :
                    /\ ~HasLesson(es, field, id, day, i)
                    /\ HasLesson(es, field, id, day, i - 1)
                    /\ HasLesson(es, field, id, day, i + 1)})

HeavyAfternoon(es) ==
    IF Has(scheduling_preferences, "preferMorningForHeavySubjects")
       /\ scheduling_preferences.preferMorningForHeavySubjects
       /\ Has(scheduling_preferences, "heavySubjects")
       /\ scheduling_preferences.heavySubjects # {}
    THEN Cardinality({e \in es : /\ e.subjectId \in scheduling_preferences.heavySubjects
                                 /\ e.startTime[1] >= 12})
    ELSE 0

ScheduleCost(es) ==
    100 * SumOver(TeacherIds \X day_indices,
                  [x \in TeacherIds \X day_indices |-> Gaps(es, "teacherId", x[1], x[2])])
    + 80 * SumOver(ClassIds \X day_indices,
                   [x \in ClassIds \X day_indices |-> Gaps(es, "classId", x[1], x[2])])
    + 50 * HeavyAfternoon(es)

EntriesOf(a) == {EntryOf(k) : k \in a}

\* C28: when the solver answered OPTIMAL, the entries of the generated
\* schedule cost 100 x teacher gaps + 80 x class gaps + 50 x heavy afternoon
\* entries no more than the entries of any assignment that satisfies the
\* posted constraints (a cost of zero is the least there is)
C28_OptimalScheduleMinimisesCost ==
    (Generated /\ status = "OPTIMAL") =>
        \/ ScheduleCost(Entries) = 0
        \/ \A b \in SUBSET Keys :
                Satisfies(b) => ScheduleCost(Entries) <= ScheduleCost(EntriesOf(b))

\* an OPTIMAL schedule that could not avoid the gap, with the heavy subject
\* kept in the morning although an afternoon slot was open to it
C28_Witness ==
    /\ Generated /\ status = "OPTIMAL"
    /\ ScheduleCost(Entries) = 180
    /\ HeavyAfternoon(Entries) = 0
    /\ \E b \in SUBSET Keys : Satisfies(b) /\ HeavyAfternoon(EntriesOf(b)) > 0

(* ------------------------------------------------------------------ *)
(* the caller's record after the call                                   *)
(* ------------------------------------------------------------------ *)
\* C29: when generate has returned (a generated, a mock or an error
\* schedule), the caller's record has the keys and values it had before
C29_InputRecordUnchanged == Done => data = request

\* the one key the call may add is school_settings.maxSubjectsPerDay
OnlyMaxSubjectsPerDayWritten ==
    /\ [data EXCEPT !.school_settings = <<>>] = [request EXCEPT !.school_settings = <<>>]
    /\ Without(data.school_settings, {"maxSubjectsPerDay"})
         = Without(request.school_settings, {"maxSubjectsPerDay"})
    /\ Has(request.school_settings, "maxSubjectsPerDay")
         => data.school_settings = request.school_settings

(* ------------------------------------------------------------------ *)
(* the time-grid loop comes to an end                                   *)
(* ------------------------------------------------------------------ *)
\* settings with parseable times, a positive lesson and a pause of zero or
\* more minutes; the breaks overlap each other, lie outside the school day,
\* last zero or a negative number of minutes
LoopBreakfasts ==
    { [hasBreakfastBreak |-> <<FALSE>>],
      [hasBreakfastBreak |-> <<TRUE>>, breakfastBreakStartTime |-> <<T(8, 0)>>,
       breakfastBreakDuration |-> <<0>>],
      [hasBreakfastBreak |-> <<TRUE>>, breakfastBreakStartTime |-> <<T(7, 0)>>,
       breakfastBreakDuration |-> <<30>>],
      [hasBreakfastBreak |-> <<TRUE>>, breakfastBreakStartTime |-> <<T(9, 0)>>,
       breakfastBreakDuration |-> <<30>>] }

LoopLunches ==
    { [lunchBreakStartTime |-> <<T(9, 0)>>, lunchBreakDuration |-> <<30>>],
      [lunchBreakStartTime |-> <<T(9, 15)>>, lunchBreakDuration |-> <<0>>],
      [lunchBreakStartTime |-> <<T(12, 0)>>, lunchBreakDuration |-> <<45>>],
      [lunchBreakStartTime |-> <<T(8, 30)>>, lunchBreakDuration |-> <<-45>>] }

LoopInputs ==
    { Input(Settings(b @@ l @@ [endTime |-> <<T(e, 0)>>, lessonDuration |-> <<ld>>,
                                breakDuration |-> <<bd>>]),
            OneTeacher, OneClass, Catalog(1), Rooms(1)) :
        b \in LoopBreakfasts, l \in LoopLunches, e \in {9, 10, 11},
        ld \in {30, 60}, bd \in {0, 15} }

GridInit ==
    /\ request \in LoopInputs
    /\ data = request
    /\ validation = <<>>
    /\ pc = "start"
    /\ current_minutes = 0
    /\ time_slots = <<>>
    /\ assignment_vars = <<>>
    /\ model = {}
    /\ sol = {}
    /\ status = "NONE"
    /\ raised = "none"
    /\ result = <<>>

GridNext ==
    \/ Validate
    \/ Construct
    \/ GridSkipBreakfast
    \/ GridSkipLunch
    \/ GridEmit
    \/ GridDone

\* a call that has begun runs on: the loop takes its next iteration
GridSpec == GridInit /\ [][GridNext]_vars /\ WF_vars(GridNext)

CursorMoves ==
    (pc = "grid" /\ pc' = "grid" /\ lesson_duration > 0 /\ break_duration >= 0)
        => current_minutes' > current_minutes

\* C30: with parseable times, lessonDuration > 0 and breakDuration >= 0 the
\* cursor grows on every iteration of the time-grid loop, whether a slot is
\* emitted or a break is jumped, and the loop comes to its end
C30_GridLoopTerminates ==
    /\ [][CursorMoves]_vars
    /\ (pc = "grid") ~> (pc = "ready")

\* the loop has ended after jumping a breakfast break that overlaps the lunch
\* break and emitting a slot
C30_Witness ==
    /\ pc = "ready"
    /\ has_breakfast_break
    /\ Overlaps(breakfast_start_minutes, breakfast_end_minutes,
                lunch_start_minutes, lunch_end_minutes)
    /\ time_slots # <<>>
    /\ \E i \in 2 .. Len(time_slots) :
            time_to_minutes(time_slots[i][1]) >= breakfast_end_minutes
            /\ time_to_minutes(time_slots[i - 1][2]) <= breakfast_start_minutes
====
